---------------------------- MODULE Spec2Model ----------------------------
(* A model of the mock orchestrator of LyzrCore/spaces                     *)
(* (src/apps/shared/orchestrator/mock_orchestrator.py) and of the          *)
(* blueprint it is constructed with in src/apps/it_service_desk/config.py. *)
(*                                                                         *)
(* Python strings are sequences of one-character strings, so that          *)
(* str.lower(), " ".join(...), the `in` substring test and f-string        *)
(* formatting are computed character by character.                         *)
EXTENDS Integers, Sequences, FiniteSets, TLC

VARIABLES
    blueprint,    \* MockOrchestrator.blueprint
    constructed,  \* the blueprint the orchestrator was constructed with
    input_data,   \* the submission of the direct calls
    result,       \* the outcome of process(input_data)
    relevant,     \* the outcome of _get_relevant_workers(input_data)
    runs,         \* the calls in flight on the orchestrator, by caller
    page,         \* the page dict of AppConfig.pages that DemoApp builds
    app_data,     \* AppConfig.data
    rendered,     \* the outcome of building the page: what it rendered
    fields,       \* FormPageConfig.fields of the form page
    field_values, \* the value each input component of the form holds
    result_container,  \* the result column of the form page
    calls,        \* the submissions of the form: their handler runs
    template,     \* the outcome of constructing a page template of a config dict
    registry,     \* APPS_REGISTRY
    lookup,       \* the outcome of the last lookup in the registry
    validation,   \* the outcome of validate_registry
    app,          \* an AppBase-derived app
    containers,   \* the landing and app containers of the pages of that app
    demo          \* a DemoApp: its sidebar and its page containers

vars == <<blueprint, constructed, input_data, result, relevant, runs,
          page, app_data, rendered,
          fields, field_values, result_container, calls,
          template, registry, lookup, validation, app, containers, demo>>

\* the variables of template construction, of the registry and of the shells
\* built around the pages
shellVars == <<template, registry, lookup, validation, app, containers, demo>>

\* the variables of a page being built
pageVars == <<page, app_data, rendered>>

\* the variables of the form page
formVars == <<fields, field_values, result_container, calls>>

\* the variables of the direct calls
directVars == <<input_data, result, relevant>>

-----------------------------------------------------------------------------
(* Bounds of the model *)

\* the longest roster of the generated blueprints
MaxWorkers == 5
\* the number of words of a generated description
MaxWords == 2

-----------------------------------------------------------------------------
(* Python str *)

UpperChars == <<"A","B","C","D","E","F","G","H","I","J","K","L","M",
                "N","O","P","Q","R","S","T","U","V","W","X","Y","Z">>
LowerChars == <<"a","b","c","d","e","f","g","h","i","j","k","l","m",
                "n","o","p","q","r","s","t","u","v","w","x","y","z">>
DigitChars == <<"0","1","2","3","4","5","6","7","8","9">>

\* the lowercase letter of each uppercase letter
LowerOfUpper ==
    [c \in {UpperChars[i] : i \in 1..Len(UpperChars)} |->
        LowerChars[CHOOSE i \in 1..Len(UpperChars) : UpperChars[i] = c]]

\* str.lower() on one character
LowerChar(c) == IF c \in DOMAIN LowerOfUpper THEN LowerOfUpper[c] ELSE c

\* str.lower()
Lower(s) == [i \in 1..Len(s) |-> LowerChar(s[i])]

\* k in t, for strings: k occurs as a contiguous substring of t
Contains(k, t) ==
    \E i \in 0..(Len(t) - Len(k)) : \A j \in 1..Len(k) : t[i + j] = k[j]

\* any(kw in t for kw in kws), kws a list of strings
AnyIn(kws, t) == \E i \in 1..Len(kws) : Contains(kws[i], t)

RECURSIVE StrOfInt(_)
\* str(n) for an int n >= 0: its decimal digits
StrOfInt(n) ==
    IF n < 10 THEN <<DigitChars[n + 1]>>
    ELSE StrOfInt(n \div 10) \o <<DigitChars[(n % 10) + 1]>>

RECURSIVE Join(_)
\* " ".join(parts)
Join(parts) ==
    IF Len(parts) = 0 THEN <<>>
    ELSE IF Len(parts) = 1 THEN parts[1]
    ELSE parts[1] \o <<" ">> \o Join(Tail(parts))

-----------------------------------------------------------------------------
(* Python values of a form submission: a str, an int or None *)

PyStr(s) == [t |-> "str", s |-> s, n |-> 0]
PyInt(n) == [t |-> "int", s |-> <<>>, n |-> n]
PyNone == [t |-> "none", s |-> <<>>, n |-> 0]

\* str(v)
StrOf(v) ==
    CASE v.t = "str" -> v.s
      [] v.t = "int" -> StrOfInt(v.n)
      [] OTHER -> <<"N","o","n","e">>

\* a dict is the sequence of its items, in insertion order
HasKey(d, k) == \E i \in 1..Len(d) : d[i].k = k

\* d.get(k, default)
Get(d, k, default) ==
    IF HasKey(d, k) THEN d[CHOOSE i \in 1..Len(d) : d[i].k = k].v ELSE default

-----------------------------------------------------------------------------
(* The blueprint: AgentConfig, BlueprintConfig, IT_INCIDENT_BLUEPRINT *)

AgentConfig(name, role, triggers) ==
    [name |-> name, role |-> role, triggers |-> triggers]

BlueprintConfig(id, name, domain, manager, workers) ==
    [id |-> id, name |-> name, domain |-> domain,
     manager |-> manager, workers |-> workers]

Manager == AgentConfig("Incident Coordinator",
                       "Orchestrates incident response workflow", <<>>)

SystemMonitoring ==
    AgentConfig("System Monitoring",
                "Monitors system health and detects anomalies",
                << <<"c","p","u">>,
                   <<"m","e","m","o","r","y">>,
                   <<"d","i","s","k">>,
                   <<"p","e","r","f","o","r","m","a","n","c","e">>,
                   <<"s","l","o","w">>,
                   <<"h","i","g","h">> >>)
AlertTriage ==
    AgentConfig("Alert Triage", "Triages alerts and assigns severity",
                << <<"a","l","e","r","t">>,
                   <<"c","r","i","t","i","c","a","l">>,
                   <<"u","r","g","e","n","t">>,
                   <<"p","r","i","o","r","i","t","y">> >>)
RootCauseAnalysis ==
    AgentConfig("Root Cause Analysis",
                "Investigates and identifies root cause",
                << <<"e","r","r","o","r">>,
                   <<"f","a","i","l","u","r","e">>,
                   <<"b","u","g">>,
                   <<"i","s","s","u","e">>,
                   <<"c","a","u","s","e">> >>)
EscalationCoordinator ==
    AgentConfig("Escalation Coordinator",
                "Manages escalations and notifications",
                << <<"e","s","c","a","l","a","t","e">>,
                   <<"n","o","t","i","f","y">>,
                   <<"t","e","a","m">>,
                   <<"u","r","g","e","n","t">> >>)

\* the roster of IT_INCIDENT_BLUEPRINT
ItWorkers ==
    <<SystemMonitoring, AlertTriage, RootCauseAnalysis, EscalationCoordinator>>

\* MockOrchestrator(IT_INCIDENT_BLUEPRINT).blueprint
IT_INCIDENT_BLUEPRINT ==
    BlueprintConfig("it-incident-response", "IT Incident Response",
                    "it_operations", Manager, ItWorkers)

-----------------------------------------------------------------------------
(* MockOrchestrator: worker selection *)

\* the cap of the fallback slice, workers[:3]
FallbackLimit == 3

Min(a, b) == IF a < b THEN a ELSE b

\* the text worker selection reads: " ".join(str(v).lower() for v in values)
InputText(d) == Join([i \in 1..Len(d) |-> Lower(StrOf(d[i].v))])

\* a buggy match: the trigger is not lowercased
TriggeredCaseSensitive(worker, text) ==
    \E i \in 1..Len(worker.triggers) : Contains(worker.triggers[i], text)

\* any(trigger.lower() in text for trigger in worker.triggers)
Triggered(worker, text) ==
    \E i \in 1..Len(worker.triggers) : Contains(Lower(worker.triggers[i]), text)

\* a buggy fallback: every worker, uncapped
FallbackAllWorkers(workers) == workers

\* self.blueprint.workers[:3]
FallbackWorkers(workers) == SubSeq(workers, 1, Min(FallbackLimit, Len(workers)))

\* MockOrchestrator._get_relevant_workers
GetRelevantWorkers(bp, d) ==
    LET text == InputText(d)
        matching == SelectSeq(bp.workers, LAMBDA w : Triggered(w, text))
    IN  IF matching = <<>> THEN FallbackWorkers(bp.workers) ELSE matching

-----------------------------------------------------------------------------
(* MockOrchestrator: the IT incident response *)

critical_keywords ==
    << <<"d","o","w","n">>,
       <<"o","u","t","a","g","e">>,
       <<"c","r","i","t","i","c","a","l">>,
       <<"p","r","o","d","u","c","t","i","o","n">>,
       <<"1","0","0","%">>,
       <<"a","l","l"," ","u","s","e","r","s">> >>
high_keywords ==
    << <<"s","l","o","w">>,
       <<"d","e","g","r","a","d","e","d">>,
       <<"h","i","g","h"," ","c","p","u">>,
       <<"h","i","g","h"," ","m","e","m","o","r","y">>,
       <<"t","i","m","e","o","u","t">> >>
medium_keywords ==
    << <<"i","n","t","e","r","m","i","t","t","e","n","t">>,
       <<"s","o","m","e"," ","u","s","e","r","s">>,
       <<"e","r","r","o","r"," ","r","a","t","e">> >>

kw_cpu == <<"c","p","u">>
kw_memory == <<"m","e","m","o","r","y">>
kw_deploy == <<"d","e","p","l","o","y">>
kw_release == <<"r","e","l","e","a","s","e">>
kw_timeout == <<"t","i","m","e","o","u","t">>
kw_error == <<"e","r","r","o","r">>

\* a buggy severity: the high tier is checked before the critical tier
DetermineSeverityHighFirst(description) ==
    IF AnyIn(high_keywords, description) THEN "P2 - High"
    ELSE IF AnyIn(critical_keywords, description) THEN "P1 - Critical"
    ELSE IF AnyIn(medium_keywords, description) THEN "P3 - Medium"
    ELSE "P4 - Low"

\* MockOrchestrator._determine_severity
DetermineSeverity(description) ==
    IF AnyIn(critical_keywords, description) THEN "P1 - Critical"
    ELSE IF AnyIn(high_keywords, description) THEN "P2 - High"
    ELSE IF AnyIn(medium_keywords, description) THEN "P3 - Medium"
    ELSE "P4 - Low"

TimelineEvent(time, event, agent) ==
    [time |-> time, event |-> event, agent |-> agent]

EvReported ==
    TimelineEvent(<<"0","0",":","0","0">>, "Incident reported", "System Monitoring")
EvTriaged ==
    TimelineEvent(<<"0","0",":","0","2">>, "Alert triaged and severity assigned", "Alert Triage")
EvInvestigation ==
    TimelineEvent(<<"0","0",":","0","5">>, "Investigation started", "Root Cause Analysis")
EvResourceExhaustion ==
    TimelineEvent(<<"0","0",":","0","8">>, "Resource exhaustion detected", "System Monitoring")
EvScaling ==
    TimelineEvent(<<"0","0",":","1","2">>, "Scaling remediation initiated", "Root Cause Analysis")
EvDeployment ==
    TimelineEvent(<<"0","0",":","0","8">>, "Recent deployment identified", "Root Cause Analysis")
EvRollback ==
    TimelineEvent(<<"0","0",":","1","0">>, "Rollback initiated", "Escalation Coordinator")
EvResolution ==
    TimelineEvent(<<"0","0",":","1","5">>, "Resolution in progress", "Incident Coordinator")

\* a buggy timeline: the closing event is appended before the deployment pair
GenerateItTimelineCloseEarly(description) ==
    <<EvReported, EvTriaged, EvInvestigation>>
    \o (IF Contains(kw_cpu, description) \/ Contains(kw_memory, description)
        THEN <<EvResourceExhaustion, EvScaling>> ELSE <<>>)
    \o <<EvResolution>>
    \o (IF Contains(kw_deploy, description) \/ Contains(kw_release, description)
        THEN <<EvDeployment, EvRollback>> ELSE <<>>)

\* a buggy timeline: the deployment branch is an elif of the resource branch
GenerateItTimelineExclusive(description) ==
    <<EvReported, EvTriaged, EvInvestigation>>
    \o (IF Contains(kw_cpu, description) \/ Contains(kw_memory, description)
        THEN <<EvResourceExhaustion, EvScaling>>
        ELSE IF Contains(kw_deploy, description) \/ Contains(kw_release, description)
        THEN <<EvDeployment, EvRollback>> ELSE <<>>)
    \o <<EvResolution>>

\* a buggy timeline: the deployment pair is appended before the resource pair
GenerateItTimelineDeploymentFirst(description) ==
    <<EvReported, EvTriaged, EvInvestigation>>
    \o (IF Contains(kw_deploy, description) \/ Contains(kw_release, description)
        THEN <<EvDeployment, EvRollback>> ELSE <<>>)
    \o (IF Contains(kw_cpu, description) \/ Contains(kw_memory, description)
        THEN <<EvResourceExhaustion, EvScaling>> ELSE <<>>)
    \o <<EvResolution>>

\* MockOrchestrator._generate_it_timeline
GenerateItTimeline(description) ==
    <<EvReported, EvTriaged, EvInvestigation>>
    \o (IF Contains(kw_cpu, description) \/ Contains(kw_memory, description)
        THEN <<EvResourceExhaustion, EvScaling>> ELSE <<>>)
    \o (IF Contains(kw_deploy, description) \/ Contains(kw_release, description)
        THEN <<EvDeployment, EvRollback>> ELSE <<>>)
    \o <<EvResolution>>

RootCauseCpu == "Root cause identified as CPU exhaustion due to inefficient query processing in the database layer. The query optimizer failed to use the correct index, causing full table scans under high load."
RootCauseMemory == "Memory leak detected in the application service. The connection pool was not properly releasing connections, leading to gradual memory exhaustion over time."
RootCauseDeploy == "Issue traced to recent deployment (v2.3.1). A configuration change in the service mesh caused intermittent connection failures between microservices."
RootCauseTimeout == "Timeout caused by database connection pool exhaustion. The connection limit was reached due to long-running transactions not being properly closed."
RootCauseError == "Error spike caused by upstream API rate limiting. The external service began rejecting requests after exceeding the quota limit."
RootCauseDefault == "Investigation identified the root cause as a configuration drift between environments. The production configuration was missing critical environment variables added in the last release."

\* a buggy root cause: timeout is checked before the deployment keywords
GenerateRootCauseTimeoutFirst(description) ==
    IF Contains(kw_cpu, description) THEN RootCauseCpu
    ELSE IF Contains(kw_memory, description) THEN RootCauseMemory
    ELSE IF Contains(kw_timeout, description) THEN RootCauseTimeout
    ELSE IF Contains(kw_deploy, description) \/ Contains(kw_release, description)
         THEN RootCauseDeploy
    ELSE IF Contains(kw_error, description) THEN RootCauseError
    ELSE RootCauseDefault

\* MockOrchestrator._generate_root_cause
GenerateRootCause(description) ==
    IF Contains(kw_cpu, description) THEN RootCauseCpu
    ELSE IF Contains(kw_memory, description) THEN RootCauseMemory
    ELSE IF Contains(kw_deploy, description) \/ Contains(kw_release, description)
         THEN RootCauseDeploy
    ELSE IF Contains(kw_timeout, description) THEN RootCauseTimeout
    ELSE IF Contains(kw_error, description) THEN RootCauseError
    ELSE RootCauseDefault

ResolutionCpu == "1. Added missing database index\n2. Optimized query patterns\n3. Increased connection pool size\n4. Deployed hotfix to production"
ResolutionMemory == "1. Identified leaking connections\n2. Applied connection pool fix\n3. Restarted affected services\n4. Verified memory stabilization"
ResolutionRollback == "1. Initiated rollback to v2.3.0\n2. Verified service connectivity\n3. Confirmed user impact resolved\n4. Scheduled hotfix for configuration issue"
ResolutionDefault == "1. Identified affected components\n2. Applied configuration fix\n3. Verified system stability\n4. Confirmed resolution with monitoring"

\* MockOrchestrator._generate_resolution
GenerateResolution(description) ==
    IF Contains(kw_cpu, description) THEN ResolutionCpu
    ELSE IF Contains(kw_memory, description) THEN ResolutionMemory
    ELSE IF Contains(kw_deploy, description) THEN ResolutionRollback
    ELSE ResolutionDefault

Recommendations ==
    << "Monitor system metrics for the next 24 hours",
       "Schedule post-incident review",
       "Update runbook with findings" >>

\* the outcome of a call: it returned a value, or it raised
NotCalled == [status |-> "none", exc |-> "", ret |-> <<>>]
Returned(value) == [status |-> "returned", exc |-> "", ret |-> value]
Raised(exc) == [status |-> "raised", exc |-> exc, ret |-> <<>>]

\* the arguments of random.randint(1000, 9999)
RandLo == 1000
RandHi == 9999

\* a buggy identifier: the last three digits of the number only
IncidentIdShort(n) == <<"I","N","C","-">> \o StrOfInt(n % 1000)

\* f"INC-{n}"
IncidentId(n) == <<"I","N","C","-">> \o StrOfInt(n)

\* f"TKT-{n}"
TicketId(n) == <<"T","K","T","-">> \o StrOfInt(n)

\* a buggy response: the keyword checks read the text of all the fields
GenerateItResponseAllFields(d, n) ==
    LET title == Get(d, "title", PyStr(<<"I","n","c","i","d","e","n","t">>))
        raw == Get(d, "description", PyStr(<<>>))
        system == Get(d, "affected_system", PyStr(<<"U","n","k","n","o","w","n"," ","S","y","s","t","e","m">>))
        description == InputText(d)
    IN  IF raw.t # "str" THEN Raised("AttributeError")
        ELSE Returned([incident_id |-> IncidentId(n),
                       title |-> title,
                       status |-> "In Progress",
                       severity |-> DetermineSeverity(description),
                       affected_system |-> system,
                       assigned_to |-> "On-Call Team",
                       timeline |-> GenerateItTimeline(description),
                       root_cause |-> GenerateRootCause(description),
                       resolution |-> GenerateResolution(description),
                       recommendations |-> Recommendations])

\* MockOrchestrator._generate_it_response, n the number random.randint drew;
\* .lower() of a description that is no str raises AttributeError
GenerateItResponse(d, n) ==
    LET title == Get(d, "title", PyStr(<<"I","n","c","i","d","e","n","t">>))
        raw == Get(d, "description", PyStr(<<>>))
        system == Get(d, "affected_system", PyStr(<<"U","n","k","n","o","w","n"," ","S","y","s","t","e","m">>))
        description == Lower(raw.s)
    IN  IF raw.t # "str" THEN Raised("AttributeError")
        ELSE Returned([incident_id |-> IncidentId(n),
                       title |-> title,
                       status |-> "In Progress",
                       severity |-> DetermineSeverity(description),
                       affected_system |-> system,
                       assigned_to |-> "On-Call Team",
                       timeline |-> GenerateItTimeline(description),
                       root_cause |-> GenerateRootCause(description),
                       resolution |-> GenerateResolution(description),
                       recommendations |-> Recommendations])

\* MockOrchestrator._generate_support_response
GenerateSupportResponse(d, n) ==
    Returned([ticket_id |-> TicketId(n),
              status |-> "Resolved",
              response |-> "Thank you for reaching out. Based on your inquiry, here's what we found...",
              category |-> "General Inquiry",
              resolution_time |-> "15 minutes"])

\* MockOrchestrator._generate_default_response
GenerateDefaultResponse(d) ==
    Returned([status |-> "Processed",
              message |-> "Your request has been processed successfully.",
              input_received |-> d])

\* a buggy dispatch: no domain is found, every blueprint gets the default
ProcessAlwaysDefault(bp, d, n) == GenerateDefaultResponse(d)

\* MockOrchestrator.process: the generator of the blueprint's domain, or the
\* default one
Process(bp, d, n) ==
    CASE bp.domain = "it_operations" -> GenerateItResponse(d, n)
      [] bp.domain = "customer_service" -> GenerateSupportResponse(d, n)
      [] OTHER -> GenerateDefaultResponse(d)

-----------------------------------------------------------------------------
(* The blueprints and the form submissions the model draws from *)

\* a worker whose triggers are not lowercase
DatabaseAdmin ==
    AgentConfig("Database Admin", "Looks after the databases",
                << <<"D","B">>, <<"D","a","t","a","b","a","s","e">> >>)

\* a worker without triggers
Observer == AgentConfig("Observer", "Watches", <<>>)

\* the workers the rosters of the generated blueprints are prefixes of
WorkerPool == ItWorkers \o <<DatabaseAdmin, Observer>>

\* the blueprints an orchestrator is constructed with: the shipped one with
\* its roster cut or extended (MockOrchestrator.__init__ keeps the workers in
\* their order), and one of each other kind of domain
Blueprints ==
    {[IT_INCIDENT_BLUEPRINT EXCEPT
         !.workers = SubSeq(WorkerPool, 1, Min(k, Len(WorkerPool)))] :
        k \in 0..MaxWorkers}
    \cup {BlueprintConfig("support", "Customer Support", "customer_service",
                          Manager, ItWorkers),
          BlueprintConfig("retail", "Retail", "retail", Manager, ItWorkers)}

\* a key the submission does not hold
Absent == [t |-> "absent", s |-> <<>>, n |-> 0]

\* dict(zip(field_keys, field_values)) of the form of the IT service desk,
\* without the keys that are absent
MakeInput(title, description, system) ==
    SelectSeq(<< [k |-> "title", v |-> title],
                 [k |-> "description", v |-> description],
                 [k |-> "affected_system", v |-> system] >>,
              LAMBDA item : item.v.t # "absent")

Words ==
    << <<"o","u","t","a","g","e">>,
       <<"s","l","o","w">>,
       <<"i","n","t","e","r","m","i","t","t","e","n","t">>,
       <<"C","P","U">>,
       <<"m","e","m","o","r","y">>,
       <<"d","e","p","l","o","y">>,
       <<"r","e","l","e","a","s","e">>,
       <<"t","i","m","e","o","u","t">>,
       <<"e","r","r","o","r">> >>

\* the descriptions' word lists: at most MaxWords distinct words, in the
\* order of Words
WordSeqs ==
    {ws \in UNION {[1..k -> 1..Len(Words)] : k \in 0..MaxWords} :
        \A i, j \in 1..Len(ws) : i < j => ws[i] < ws[j]}

Descriptions ==
    {PyStr(Join([i \in 1..Len(ws) |-> Words[ws[i]]])) : ws \in WordSeqs}
    \cup {Absent, PyInt(100),
          PyStr(<<"p","r","o","d","u","c","t","i","o","n"," ","d","a","t","a","b","a","s","e"," ","d","o","w","n"," ","f","o","r"," ","a","l","l"," ","u","s","e","r","s">>)}

\* the title and the affected system submitted beside a description
TitlesAndSystems ==
    { <<Absent, Absent>>,
      <<PyStr(<<"D","B"," ","C","r","i","t","i","c","a","l">>), Absent>>,
      <<PyInt(5), PyStr(<<"D","a","t","a","b","a","s","e">>)>> }

Inputs ==
    {MakeInput(ts[1], d, ts[2]) : ts \in TitlesAndSystems, d \in Descriptions}

\* the numbers random.randint(1000, 9999) is taken to draw
RandomDraws == {RandLo, RandHi}

-----------------------------------------------------------------------------
(* The state machine: an orchestrator, a submission, and calls on it *)

\* the callers whose calls on one orchestrator may interleave
RunIds == {1, 2}

\* a caller that has made no call
NoRun ==
    [kind |-> "none", input |-> <<>>, passed |-> <<>>, state |-> "none",
     stage |-> "", workers |-> <<>>, done |-> 0, events |-> <<>>,
     outcome |-> NotCalled]

\* no page is being built
NoPage == [page |-> "none", variant |-> "", config |-> <<>>, source |-> <<>>]

\* the application has no form page
NoForm ==
    /\ fields = <<>>
    /\ field_values = <<>>
    /\ result_container =
          [visible |-> FALSE, processing_html |-> "", result_output |-> <<>>]
    /\ calls = <<>>

\* the application builds no page
NoPageBuilt ==
    /\ page = NoPage
    /\ app_data = <<>>
    /\ rendered = NotCalled

\* no AppBase-derived app is constructed
NoAppObject ==
    [constructed |-> NotCalled, cls |-> "", app_id |-> "", pages |-> <<>>,
     builds |-> <<>>]

\* the landing and app containers as _build_page_with_layout builds them, no
\* page of the app being open in the browser
NoPageOpen ==
    [page |-> 0, landing_container |-> TRUE, app_container |-> FALSE,
     user_info |-> "", pending |-> FALSE, last_check |-> "unchecked"]

\* no DemoApp is built
NoDemo ==
    [built |-> FALSE, sidebar |-> <<>>, pages |-> <<>>, visible |-> <<>>,
     clicked |-> 0]

\* no app is constructed and no container built
NoApp ==
    /\ app = NoAppObject
    /\ containers = NoPageOpen
    /\ demo = NoDemo

\* no template is constructed, no registry consulted and no shell built
ShellIdle ==
    /\ template = NotCalled
    /\ registry = <<>>
    /\ lookup = NotCalled
    /\ validation = NotCalled
    /\ NoApp

Init ==
    /\ blueprint \in Blueprints
    /\ constructed = blueprint
    /\ input_data \in Inputs
    /\ result = NotCalled
    /\ relevant = NotCalled
    /\ runs = [r \in RunIds |-> NoRun]
    /\ NoPageBuilt
    /\ NoForm
    /\ ShellIdle

\* orchestrator.process(input_data)
CallProcess ==
    /\ \E n \in RandomDraws : result' = Process(blueprint, input_data, n)
    /\ UNCHANGED <<shellVars, blueprint, constructed, input_data, relevant, runs, pageVars, formVars>>

\* orchestrator._get_relevant_workers(input_data)
CallGetRelevantWorkers ==
    /\ relevant' = Returned(GetRelevantWorkers(blueprint, input_data))
    /\ UNCHANGED <<shellVars, blueprint, constructed, input_data, result, runs, pageVars, formVars>>

Next == CallProcess \/ CallGetRelevantWorkers

Spec == Init /\ [][Next]_vars

-----------------------------------------------------------------------------
(* What the claims are stated over *)

SeverityLabels == {"P1 - Critical", "P2 - High", "P3 - Medium", "P4 - Low"}

\* process returned a value (it did not raise)
ProcessReturned == result.status = "returned"

\* process returned the IT incident response
ItReturned == ProcessReturned /\ blueprint.domain = "it_operations"

\* the lowercase description of the submission, "" when it has none
DescriptionText == Lower(Get(input_data, "description", PyStr(<<>>)).s)

\* the lowercase concatenation of all the submitted values
AllFieldsText == Lower(Join([i \in 1..Len(input_data) |-> StrOf(input_data[i].v)]))

\* some keyword of the set occurs in the text
Occurs(kws, text) == \E kw \in kws : Contains(kw, text)

CriticalSet == {critical_keywords[i] : i \in 1..Len(critical_keywords)}
HighSet == {high_keywords[i] : i \in 1..Len(high_keywords)}
MediumSet == {medium_keywords[i] : i \in 1..Len(medium_keywords)}

\* the label of the first tier, critical > high > medium, with a keyword
\* in the text
TierLabel(text) ==
    CASE Occurs(CriticalSet, text) -> "P1 - Critical"
      [] ~Occurs(CriticalSet, text) /\ Occurs(HighSet, text) -> "P2 - High"
      [] ~Occurs(CriticalSet \cup HighSet, text) /\ Occurs(MediumSet, text)
           -> "P3 - Medium"
      [] OTHER -> "P4 - Low"

-----------------------------------------------------------------------------
(* C1 *)

\* C1 as stated: for every blueprint with at least one worker, whatever its
\* domain, the result process returns carries a severity that is one of the
\* four labels.
C1_SeverityWhateverDomain ==
    (ProcessReturned /\ Len(blueprint.workers) >= 1)
        => /\ "severity" \in DOMAIN result.ret
           /\ result.ret.severity \in SeverityLabels

\* C1 amended: for every blueprint of domain "it_operations" the result
\* process returns carries a severity that is one of the four labels; the
\* result of a blueprint of any other domain carries no severity.
C1_SeverityOfItOperations ==
    ProcessReturned =>
        IF blueprint.domain = "it_operations"
        THEN /\ "severity" \in DOMAIN result.ret
             /\ result.ret.severity \in SeverityLabels
        ELSE "severity" \notin DOMAIN result.ret

C1_Witness ==
    /\ ItReturned
    /\ Len(blueprint.workers) >= 1
    /\ result.ret.severity = "P3 - Medium"

-----------------------------------------------------------------------------
(* C2 *)

\* C2: the severity is the label of the first tier, in the order critical,
\* high, medium, that has a keyword occurring in the text severity is
\* determined from, and "P4 - Low" exactly when no tier has one; a text with
\* "outage" and "slow" is "P1 - Critical".
C2_TierPriority ==
    ItReturned =>
        /\ result.ret.severity = TierLabel(DescriptionText)
        /\ (result.ret.severity = "P4 - Low"
              <=> ~Occurs(CriticalSet \cup HighSet \cup MediumSet, DescriptionText))
        /\ (Contains(<<"o","u","t","a","g","e">>, DescriptionText) /\ Contains(<<"s","l","o","w">>, DescriptionText)
              => result.ret.severity = "P1 - Critical")

C2_Witness ==
    /\ ItReturned
    /\ Contains(<<"o","u","t","a","g","e">>, DescriptionText)
    /\ Contains(<<"s","l","o","w">>, DescriptionText)
    /\ result.ret.severity = "P1 - Critical"

-----------------------------------------------------------------------------
(* C3 *)

\* C3 as stated: severity, timeline and root cause are decided by the
\* keywords of the lowercase concatenation of all the input values, so a
\* tier keyword in any field selects that tier.
C3_KeywordsOfAllFields ==
    ItReturned =>
        /\ result.ret.severity = TierLabel(AllFieldsText)
        /\ result.ret.timeline = GenerateItTimeline(AllFieldsText)
        /\ result.ret.root_cause = GenerateRootCause(AllFieldsText)

\* C3 amended: severity, timeline and root cause are decided by the keywords
\* of the lowercase description alone (worker selection reads all the
\* fields); a tier keyword that is only in the title or the affected system
\* selects no tier.
C3_KeywordsOfDescription ==
    ItReturned =>
        /\ result.ret.severity = TierLabel(DescriptionText)
        /\ (~Occurs(CriticalSet \cup HighSet \cup MediumSet, DescriptionText)
              => result.ret.severity = "P4 - Low")
        /\ Len(result.ret.timeline) =
              4 + (IF Occurs({kw_cpu, kw_memory}, DescriptionText) THEN 2 ELSE 0)
                + (IF Occurs({kw_deploy, kw_release}, DescriptionText) THEN 2 ELSE 0)
        /\ (~Occurs({kw_cpu, kw_memory, kw_deploy, kw_release, kw_timeout, kw_error},
                    DescriptionText)
              => result.ret.root_cause = RootCauseDefault)

C3_Witness ==
    /\ ItReturned
    /\ Occurs(CriticalSet, AllFieldsText)
    /\ ~Occurs(CriticalSet, DescriptionText)
    /\ result.ret.severity = "P2 - High"

-----------------------------------------------------------------------------
(* C4, C5 *)

\* _get_relevant_workers returned
WorkersSelected == relevant.status = "returned"

\* k is a case-insensitive substring of the concatenated input text
CaseInsensitiveIn(k, text) == Contains(Lower(k), Lower(text))

\* the concatenation of the submitted values, as submitted
ConcatenatedInput == Join([i \in 1..Len(input_data) |-> StrOf(input_data[i].v)])

\* the places in the roster of the workers with a trigger in the input text
MatchingPlaces ==
    LET text == ConcatenatedInput
    IN  {i \in 1..Len(blueprint.workers) :
            \E j \in 1..Len(blueprint.workers[i].triggers) :
                CaseInsensitiveIn(blueprint.workers[i].triggers[j], text)}

\* the k-th of the places, in roster order
KthPlace(places, k) ==
    CHOOSE i \in places : Cardinality({j \in places : j <= i}) = k

\* C4: when some worker has a trigger occurring in the input text, the
\* selected workers are exactly the workers with a trigger that is a
\* case-insensitive substring of the concatenated input, each once, in roster
\* order, however many they are.
C4_SelectedAreTheTriggered ==
    WorkersSelected =>
        LET places == MatchingPlaces
        IN  places # {} =>
              /\ Len(relevant.ret) = Cardinality(places)
              /\ \A k \in 1..Len(relevant.ret) :
                    relevant.ret[k] = blueprint.workers[KthPlace(places, k)]

\* more than three workers match, one of them by a trigger that is not
\* lowercase, and one worker does not match
C4_Witness ==
    /\ WorkersSelected
    /\ Len(relevant.ret) > 3
    /\ Len(relevant.ret) < Len(blueprint.workers)
    /\ Len(relevant.ret) = Cardinality(MatchingPlaces)
    /\ \E k \in 1..Len(relevant.ret) : relevant.ret[k] = DatabaseAdmin

-----------------------------------------------------------------------------
(* C6, C7, C8 *)

ResourceKeyword == Occurs({kw_cpu, kw_memory}, DescriptionText)
DeploymentKeyword == Occurs({kw_deploy, kw_release}, DescriptionText)

\* C6 as stated: the timeline has between 4 and 6 events, at most one of the
\* two optional pairs being appended.
C6_TimelineAtMostSix ==
    ItReturned =>
        /\ Len(result.ret.timeline) >= 4
        /\ Len(result.ret.timeline) <= 6

\* C6 amended: the timeline has between 4 and 8 events: the four fixed ones,
\* two more when the description has a resource keyword and two more when it
\* has a deployment keyword, both pairs when it has both.
C6_TimelineFourToEight ==
    ItReturned =>
        /\ Len(result.ret.timeline) >= 4
        /\ Len(result.ret.timeline) <= 8
        /\ Len(result.ret.timeline) =
              4 + (IF ResourceKeyword THEN 2 ELSE 0)
                + (IF DeploymentKeyword THEN 2 ELSE 0)

C6_Witness ==
    /\ ItReturned
    /\ ResourceKeyword
    /\ DeploymentKeyword
    /\ Len(result.ret.timeline) = 8

OptionalEvents == {EvResourceExhaustion, EvScaling, EvDeployment, EvRollback}

\* C7: the first three events are (00:00 Incident reported), (00:02 Alert
\* triaged and severity assigned), (00:05 Investigation started), the last is
\* (00:15 Resolution in progress, Incident Coordinator), and the events
\* between them, and only they, are optional ones.
C7_FixedPrefixAndClosing ==
    ItReturned =>
        LET tl == result.ret.timeline
        IN  /\ Len(tl) >= 4
            /\ tl[1] = [time |-> <<"0","0",":","0","0">>, event |-> "Incident reported",
                        agent |-> "System Monitoring"]
            /\ tl[2] = [time |-> <<"0","0",":","0","2">>,
                        event |-> "Alert triaged and severity assigned",
                        agent |-> "Alert Triage"]
            /\ tl[3] = [time |-> <<"0","0",":","0","5">>, event |-> "Investigation started",
                        agent |-> "Root Cause Analysis"]
            /\ tl[Len(tl)] = [time |-> <<"0","0",":","1","5">>, event |-> "Resolution in progress",
                              agent |-> "Incident Coordinator"]
            /\ \A i \in 1..Len(tl) :
                  tl[i] \in OptionalEvents <=> (3 < i /\ i < Len(tl))

C7_Witness ==
    /\ ItReturned
    /\ Len(result.ret.timeline) > 6
    /\ result.ret.timeline[Len(result.ret.timeline)] = EvResolution
    /\ result.ret.timeline[7] \in OptionalEvents

\* the value of a decimal digit
DigitValue(c) == (CHOOSE i \in 1..Len(DigitChars) : DigitChars[i] = c) - 1

\* the time a stamp "MM:SS" denotes
TimeValue(stamp) ==
    (DigitValue(stamp[1]) * 10 + DigitValue(stamp[2])) * 60
    + DigitValue(stamp[4]) * 10 + DigitValue(stamp[5])

\* C8: in every timeline process returns, the time stamps of consecutive
\* events do not decrease.
C8_TimelineChronological ==
    ItReturned =>
        \A i \in 1..(Len(result.ret.timeline) - 1) :
            TimeValue(result.ret.timeline[i].time)
                <= TimeValue(result.ret.timeline[i + 1].time)

-----------------------------------------------------------------------------
(* C9, C10 *)

\* C9: the root cause is that of the first keyword found, in the order cpu,
\* memory, deploy or release, timeout, error, and the default one when none
\* is; the severity plays no part: "production database down for all users"
\* is "P1 - Critical" with the default root cause.
C9_RootCausePriority ==
    ItReturned =>
        LET has(kw) == Contains(kw, DescriptionText)
            rc == result.ret.root_cause
        IN  /\ has(kw_cpu) => rc = RootCauseCpu
            /\ (~has(kw_cpu) /\ has(kw_memory)) => rc = RootCauseMemory
            /\ (~has(kw_cpu) /\ ~has(kw_memory) /\ (has(kw_deploy) \/ has(kw_release)))
                  => rc = RootCauseDeploy
            /\ (~has(kw_cpu) /\ ~has(kw_memory) /\ ~has(kw_deploy) /\ ~has(kw_release)
                  /\ has(kw_timeout))
                  => rc = RootCauseTimeout
            /\ (~has(kw_cpu) /\ ~has(kw_memory) /\ ~has(kw_deploy) /\ ~has(kw_release)
                  /\ ~has(kw_timeout) /\ has(kw_error))
                  => rc = RootCauseError
            /\ (~has(kw_cpu) /\ ~has(kw_memory) /\ ~has(kw_deploy) /\ ~has(kw_release)
                  /\ ~has(kw_timeout) /\ ~has(kw_error))
                  => rc = RootCauseDefault
            /\ DescriptionText = <<"p","r","o","d","u","c","t","i","o","n"," ","d","a","t","a","b","a","s","e"," ","d","o","w","n"," ","f","o","r"," ","a","l","l"," ","u","s","e","r","s">>
                  => /\ result.ret.severity = "P1 - Critical"
                     /\ rc = RootCauseDefault

C9_Witness ==
    /\ ItReturned
    /\ DescriptionText = <<"p","r","o","d","u","c","t","i","o","n"," ","d","a","t","a","b","a","s","e"," ","d","o","w","n"," ","f","o","r"," ","a","l","l"," ","u","s","e","r","s">>
    /\ result.ret.severity = "P1 - Critical"
    /\ result.ret.root_cause = RootCauseDefault

\* C10: root cause and resolution come from the same branch: a deployment
\* root cause goes with the rollback resolution, the CPU root cause with the
\* CPU resolution, the memory root cause with the memory resolution.
C10_ResolutionFollowsRootCause ==
    ItReturned =>
        /\ result.ret.root_cause = RootCauseDeploy
              => result.ret.resolution = ResolutionRollback
        /\ result.ret.root_cause = RootCauseCpu
              => result.ret.resolution = ResolutionCpu
        /\ result.ret.root_cause = RootCauseMemory
              => result.ret.resolution = ResolutionMemory

-----------------------------------------------------------------------------
(* MockOrchestrator.process_stream: a generator, resumed by its caller *)

\* the event process_stream yields first
AnalyzingEvent(bp) ==
    [stage |-> "analyzing", agent |-> bp.manager.name,
     message |-> <<"Analyzing your request...">>]

\* the event yielded for a relevant worker; the message is
\* f"Processing: {worker.role}"
ProcessingEvent(worker) ==
    [stage |-> "processing", agent |-> worker.name,
     message |-> <<"Processing: ", worker.role>>]

SynthesizingEvent(bp) ==
    [stage |-> "synthesizing", agent |-> bp.manager.name,
     message |-> <<"Synthesizing results...">>]

CompleteEvent(res) == [stage |-> "complete", result |-> res]

\* a buggy selection: the fallback cuts the roster itself to three workers
BlueprintAfterSelectionTruncating(bp, d) ==
    IF SelectSeq(bp.workers, LAMBDA w : Triggered(w, InputText(d))) = <<>>
    THEN [bp EXCEPT !.workers = FallbackWorkers(bp.workers)]
    ELSE bp

\* self.blueprint after _get_relevant_workers: the selection is appended to a
\* new list and the fallback is a slice, a copy; the roster is not written
BlueprintAfterSelection(bp, d) == bp

\* a buggy final result: the default generator instead of self.process
StreamResultDefault(bp, d, n) == GenerateDefaultResponse(d)

\* result = self.process(input_data), n the number random.randint draws
StreamResult(bp, d, n) == Process(bp, d, n)

\* a buggy process that stores the lowercased description in the caller's dict
InputAfterProcessLowered(d) ==
    [i \in 1..Len(d) |->
        IF d[i].k = "description" /\ d[i].v.t = "str"
        THEN [k |-> d[i].k, v |-> PyStr(Lower(d[i].v.s))]
        ELSE d[i]]

\* the caller's dict after process(d): the generators read it by get, worker
\* selection by values(); none assigns into it
InputAfterProcess(d) == d

\* a generator object just made by process_stream(d): none of its code has
\* run; input is the caller's dict, passed what it held at the call
NewStream(d) ==
    [kind |-> "stream", input |-> d, passed |-> d, state |-> "created",
     stage |-> "", workers |-> <<>>, done |-> 0, events |-> <<>>,
     outcome |-> NotCalled]

\* the generator suspended at the yield of event ev
Yield(run, ev) ==
    [run EXCEPT !.state = "suspended", !.stage = ev.stage,
                !.events = Append(run.events, ev)]

\* next() on the generator of process_stream: its code from where it is
\* suspended to the next yield, to its end (StopIteration) or to the
\* exception that leaves it
ProcessStreamNext(bp, run, n) ==
    CASE run.state = "created" -> Yield(run, AnalyzingEvent(bp))
      [] run.state = "suspended" /\ run.stage = "analyzing" ->
           LET relevant_workers == GetRelevantWorkers(bp, run.input)
           IN  IF relevant_workers # <<>>
               THEN Yield([run EXCEPT !.workers = relevant_workers, !.done = 1],
                          ProcessingEvent(relevant_workers[1]))
               ELSE Yield(run, SynthesizingEvent(bp))
      [] run.state = "suspended" /\ run.stage = "processing" ->
           IF run.done < Len(run.workers)
           THEN Yield([run EXCEPT !.done = run.done + 1],
                      ProcessingEvent(run.workers[run.done + 1]))
           ELSE Yield(run, SynthesizingEvent(bp))
      [] run.state = "suspended" /\ run.stage = "synthesizing" ->
           LET res == StreamResult(bp, run.input, n)
               after == [run EXCEPT !.input = InputAfterProcess(run.input)]
           IN  IF res.status = "raised"
               THEN [after EXCEPT !.state = "raised", !.outcome = res]
               ELSE Yield(after, CompleteEvent(res.ret))
      [] run.state = "suspended" /\ run.stage = "complete" ->
           [run EXCEPT !.state = "finished"]
      [] OTHER -> run

\* the submissions of the interleaved calls
StreamInputs ==
    { MakeInput(Absent, Absent, Absent),
      MakeInput(Absent, PyStr(<<"s","l","o","w">>), Absent),
      MakeInput(PyStr(<<"D","B"," ","C","r","i","t","i","c","a","l">>), PyStr(<<"C","P","U"," ","e","r","r","o","r">>), Absent),
      MakeInput(PyInt(5), PyInt(100), PyStr(<<"D","a","t","a","b","a","s","e">>)) }

StreamInit ==
    /\ blueprint \in Blueprints
    /\ constructed = blueprint
    /\ input_data = <<>>
    /\ result = NotCalled
    /\ relevant = NotCalled
    /\ runs = [r \in RunIds |-> NoRun]
    /\ NoPageBuilt
    /\ NoForm
    /\ ShellIdle

\* a caller makes its call once the callers before it have made theirs
MayCall(r) ==
    /\ runs[r].kind = "none"
    /\ \A q \in RunIds : q < r => runs[q].kind # "none"

\* caller r calls orchestrator.process_stream(d)
CallProcessStream(r) ==
    /\ MayCall(r)
    /\ \E d \in StreamInputs : runs' = [runs EXCEPT ![r] = NewStream(d)]
    /\ UNCHANGED <<shellVars, blueprint, constructed, directVars, pageVars, formVars>>

\* caller r calls next() on its generator
ResumeStream(r) ==
    /\ runs[r].kind = "stream"
    /\ runs[r].state \in {"created", "suspended"}
    /\ \E n \in RandomDraws :
          runs' = [runs EXCEPT ![r] = ProcessStreamNext(blueprint, runs[r], n)]
    /\ blueprint' = IF runs[r].stage = "analyzing"
                    THEN BlueprintAfterSelection(blueprint, runs[r].input)
                    ELSE blueprint
    /\ UNCHANGED <<shellVars, constructed, directVars, pageVars, formVars>>

\* caller r calls orchestrator.process(d) and gets its outcome
CallProcessDirect(r) ==
    /\ MayCall(r)
    /\ \E d \in StreamInputs, n \in RandomDraws :
          LET res == Process(blueprint, d, n)
          IN  runs' = [runs EXCEPT ![r] =
                          [NoRun EXCEPT !.kind = "process", !.passed = d,
                                        !.input = InputAfterProcess(d),
                                        !.state = res.status, !.outcome = res]]
    /\ UNCHANGED <<shellVars, blueprint, constructed, directVars, pageVars, formVars>>

StreamNext ==
    \E r \in RunIds : CallProcessStream(r) \/ ResumeStream(r) \/ CallProcessDirect(r)

StreamSpec == StreamInit /\ [][StreamNext]_vars

-----------------------------------------------------------------------------
(* C11 .. C14: process_stream and interleaved calls *)

\* the generator of caller r has come to its end, by StopIteration or by an
\* exception
Ended(r) == runs[r].kind = "stream" /\ runs[r].state \in {"finished", "raised"}

\* the events before 'complete' of a stream over input d on an orchestrator
\* of blueprint bp
ExpectedProgress(bp, d) ==
    LET W == GetRelevantWorkers(bp, d)
    IN  <<AnalyzingEvent(bp)>> \o [i \in 1..Len(W) |-> ProcessingEvent(W[i])]
            \o <<SynthesizingEvent(bp)>>

\* the 'complete' event of a stream has been emitted
Completed(r) ==
    /\ runs[r].kind = "stream"
    /\ runs[r].events # <<>>
    /\ runs[r].events[Len(runs[r].events)].stage = "complete"

\* the result the 'complete' event of caller r carries
CompleteResult(r) == runs[r].events[Len(runs[r].events)].result

\* a result with its randomly drawn identifier blanked
WithoutId(ret) ==
    IF "incident_id" \in DOMAIN ret THEN [ret EXCEPT !.incident_id = <<>>]
    ELSE IF "ticket_id" \in DOMAIN ret THEN [ret EXCEPT !.ticket_id = <<>>]
    ELSE ret

\* the identifier of a result, <<>> when it has none
IdOf(ret) ==
    IF "incident_id" \in DOMAIN ret THEN ret.incident_id
    ELSE IF "ticket_id" \in DOMAIN ret THEN ret.ticket_id
    ELSE <<>>

\* C11: for every input, a stream that has come to its end has emitted
\* exactly: 'analyzing' by the manager, one 'processing' per relevant worker
\* in selection order and naming it, 'synthesizing' by the manager, then
\* 'complete' - 3 + number-of-relevant-workers events, nothing after.
C11_StreamEmitsFullSequence ==
    \A r \in RunIds :
        Ended(r) =>
            LET exp == ExpectedProgress(blueprint, runs[r].input)
                ev  == runs[r].events
            IN  /\ Len(ev) = Len(exp) + 1
                /\ SubSeq(ev, 1, Len(exp)) = exp
                /\ ev[Len(ev)].stage = "complete"

\* C12 as stated: the result of the 'complete' event equals the result of a
\* direct process call with the same input in all fields, identifier included.
C12_CompleteEqualsDirect ==
    \A a, b \in RunIds :
        (/\ Completed(a)
         /\ runs[b].kind = "process" /\ runs[b].state = "returned"
         /\ runs[a].input = runs[b].input)
        => CompleteResult(a) = runs[b].outcome.ret

\* C12 amended: the result of the 'complete' event equals the result of a
\* direct process call with the same input in every field other than the
\* randomly drawn identifier.
C12_CompleteEqualsDirectButId ==
    \A a, b \in RunIds :
        (/\ Completed(a)
         /\ runs[b].kind = "process" /\ runs[b].state = "returned"
         /\ runs[a].input = runs[b].input)
        => WithoutId(CompleteResult(a)) = WithoutId(runs[b].outcome.ret)

\* a stream and a direct call on the same input whose results differ in the
\* identifier and in nothing else
C12_Witness ==
    \E a, b \in RunIds :
        /\ Completed(a)
        /\ runs[b].kind = "process" /\ runs[b].state = "returned"
        /\ runs[a].input = runs[b].input
        /\ IdOf(CompleteResult(a)) # IdOf(runs[b].outcome.ret)
        /\ WithoutId(CompleteResult(a)) = WithoutId(runs[b].outcome.ret)
        /\ "severity" \in DOMAIN CompleteResult(a)

\* C13: a stream that was started and has come to its end has emitted its
\* terminal 'complete' event: no path leaves the stream before it.
C13_StartedStreamCompletes ==
    \A r \in RunIds : Ended(r) => Completed(r)

\* C14: whatever the interleaving of two process / process_stream runs on one
\* orchestrator and whatever ran before, each run's events and every result
\* field other than the random identifier are those of the same run alone on
\* a fresh orchestrator with the blueprint this one was constructed with.
C14_RunsAreIndependent ==
    \A r \in RunIds :
        LET d     == runs[r].input
            alone == Process(constructed, d, RandLo)
            exp   == ExpectedProgress(constructed, d)
            ev    == runs[r].events
        IN  /\ runs[r].kind = "process" =>
                /\ runs[r].outcome.status = alone.status
                /\ alone.status = "returned" =>
                      WithoutId(runs[r].outcome.ret) = WithoutId(alone.ret)
                /\ alone.status = "raised" => runs[r].outcome = alone
            /\ runs[r].kind = "stream" =>
                /\ Len(ev) <= Len(exp) + 1
                /\ \A i \in 1..Min(Len(ev), Len(exp)) : ev[i] = exp[i]
                /\ Len(ev) = Len(exp) + 1 =>
                      /\ alone.status = "returned"
                      /\ ev[Len(ev)].stage = "complete"
                      /\ WithoutId(ev[Len(ev)].result) = WithoutId(alone.ret)
                /\ runs[r].state = "finished" => Len(ev) = Len(exp) + 1
                /\ runs[r].state = "raised" =>
                      Len(ev) = Len(exp) /\ runs[r].outcome = alone

\* two streams over different inputs suspended in the middle of each other,
\* the first after a fallback selection, the second naming a worker beyond
\* the fallback's three
C14_Witness ==
    /\ runs[1].kind = "stream" /\ runs[2].kind = "stream"
    /\ runs[1].state = "suspended" /\ runs[1].stage = "synthesizing"
    /\ runs[2].state = "suspended" /\ runs[2].stage = "processing"
    /\ runs[1].input # runs[2].input
    /\ Len(constructed.workers) > FallbackLimit
    /\ Len(runs[1].workers) = FallbackLimit
    /\ \E i \in 1..Len(runs[2].workers) :
          runs[2].workers[i] = constructed.workers[Len(constructed.workers)]

-----------------------------------------------------------------------------
(* C15 *)

\* C15: for every input in which each of title, description and
\* affected_system is absent or holds a string or a number, a call of process
\* returns a result and raises no error.
C15_ProcessNeverFaults ==
    result # NotCalled => result.status = "returned"

-----------------------------------------------------------------------------
(* Page templates: ListPage and DashboardPage, built by DemoApp._build_page *)

\* the uppercase letter of each lowercase letter
UpperOfLower ==
    [c \in {LowerChars[i] : i \in 1..Len(LowerChars)} |->
        UpperChars[CHOOSE i \in 1..Len(LowerChars) : LowerChars[i] = c]]

\* str.upper() on one character
UpperChar(c) == IF c \in DOMAIN UpperOfLower THEN UpperOfLower[c] ELSE c

\* a cased character
IsAlpha(c) == c \in DOMAIN UpperOfLower \/ c \in DOMAIN LowerOfUpper

\* str.title(): a letter after a non-letter is uppercased, any other lowercased
Title(s) ==
    [i \in 1..Len(s) |->
        IF i = 1 \/ ~IsAlpha(s[i - 1]) THEN UpperChar(s[i]) ELSE LowerChar(s[i])]

\* s.replace(a, b) for single characters a, b
Replace(s, a, b) == [i \in 1..Len(s) |-> IF s[i] = a THEN b ELSE s[i]]

\* the truth value of a Python value
Truthy(v) == (v.t = "str" /\ v.s # <<>>) \/ (v.t = "int" /\ v.n # 0)

\* a Python list and a Python dict (the sequence of its items)
PyList(items) == [t |-> "list", items |-> items]
PyDict(items) == [t |-> "dict", items |-> items]

\* a buggy slice that keeps one item more
SliceOneMore(s, k) == SubSeq(s, 1, Min(k + 1, Len(s)))

\* s[:k] of a Python list
Slice(s, k) ==
    IF k >= 0 THEN SubSeq(s, 1, Min(k, Len(s)))
    ELSE SubSeq(s, 1, IF Len(s) + k > 0 THEN Len(s) + k ELSE 0)

\* a rendered Gradio component: a Dataframe has headers and rows, an HTML or
\* Markdown component the sequence of fragments its text is built from
Component(kind, headers, body) ==
    [kind |-> kind, headers |-> headers, body |-> body]

ColumnConfig(key, label, type) == [key |-> key, label |-> label, type |-> type]

\* ListPageConfig(**config), card_title_key left at its default
ListPageConfig(variant, columns, card_subtitle_key, card_badge_key, empty_title, empty_description) ==
    [variant |-> variant, columns |-> columns, card_title_key |-> <<"t","i","t","l","e">>,
     card_subtitle_key |-> card_subtitle_key, card_badge_key |-> card_badge_key,
     empty_title |-> empty_title, empty_description |-> empty_description]

\* a buggy empty state that leaves the description out
ListRenderEmptyTitleOnly(config) ==
    Component("empty", <<>>, <<config.empty_title>>)

\* ListPage._render_empty
ListRenderEmpty(config) ==
    Component("empty", <<>>,
              IF Truthy(config.empty_description)
              THEN <<config.empty_title, config.empty_description.s>>
              ELSE <<config.empty_title>>)

\* the columns _render_table makes of the keys of the first item
AutoColumns(data) ==
    [i \in 1..Len(data[1]) |->
        ColumnConfig(data[1][i].k, Title(Replace(data[1][i].k, "_", " ")), "text")]

\* one cell of the table
TableCell(item, col) ==
    LET value == Get(item, col.key, PyStr(<<>>))
    IN  IF col.type = "badge" THEN StrOf(value)
        ELSE IF Truthy(value) THEN StrOf(value) ELSE <<>>

\* ListPage._render_table
ListRenderTable(config, data) ==
    LET columns == IF config.columns = <<>> THEN AutoColumns(data)
                   ELSE config.columns
    IN  Returned(Component("dataframe",
            [c \in 1..Len(columns) |-> columns[c].label],
            [i \in 1..Len(data) |->
                [c \in 1..Len(columns) |-> TableCell(data[i], columns[c])]]))

\* ListPage._get_status_color
ListStatusColor(status) ==
    LET st == Lower(status)
    IN  CASE st = <<"o","p","e","n">> -> "#ef4444"
          [] st = <<"i","n","_","p","r","o","g","r","e","s","s">> -> "#f59e0b"
          [] st = <<"i","n"," ","p","r","o","g","r","e","s","s">> -> "#f59e0b"
          [] st = <<"r","e","s","o","l","v","e","d">> -> "#22c55e"
          [] st = <<"c","l","o","s","e","d">> -> "#6b7280"
          [] st = <<"p","1">> -> "#dc2626"
          [] st = <<"p","2">> -> "#ea580c"
          [] st = <<"p","3">> -> "#ca8a04"
          [] st = <<"p","4">> -> "#6b7280"
          [] OTHER -> "#6b7280"

\* item.get(key, "") if key else ""
OptionalField(item, key) ==
    IF Truthy(key) THEN Get(item, key.s, PyStr(<<>>)) ELSE PyStr(<<>>)

\* the badge of an item is no str: badge.lower() raises AttributeError
BadgeFaults(config, item) ==
    LET badge == OptionalField(item, config.card_badge_key)
    IN  Truthy(badge) /\ badge.t # "str"

\* the card of one item
ListCard(config, item) ==
    LET title    == Get(item, config.card_title_key, PyStr(<<"U","n","t","i","t","l","e","d">>))
        subtitle == OptionalField(item, config.card_subtitle_key)
        badge    == OptionalField(item, config.card_badge_key)
    IN  [title |-> StrOf(title),
         subtitle |-> IF Truthy(subtitle) THEN StrOf(subtitle) ELSE <<>>,
         badge |-> IF Truthy(badge) THEN StrOf(badge) ELSE <<>>,
         badge_color |-> IF Truthy(badge) THEN ListStatusColor(badge.s) ELSE ""]

\* ListPage._render_cards
ListRenderCards(config, data) ==
    IF \E i \in 1..Len(data) : BadgeFaults(config, data[i])
    THEN Raised("AttributeError")
    ELSE Returned(Component("cards", <<>>,
                     [i \in 1..Len(data) |-> ListCard(config, data[i])]))

\* the line of one item, the i-th, of the compact list
ListCompactItem(config, item, i) ==
    LET title == Get(item, config.card_title_key, PyStr(<<"U","n","t","i","t","l","e","d">>))
        badge == OptionalField(item, config.card_badge_key)
    IN  [title |-> StrOf(title),
         badge |-> IF Truthy(badge) THEN StrOf(badge) ELSE <<>>,
         badge_color |-> IF Truthy(badge) THEN ListStatusColor(badge.s) ELSE "",
         border_top |-> i > 1]

\* a buggy compact list that, like the border, starts after the first item
ListRenderCompactAfterFirst(config, data) ==
    Returned(Component("compact", <<>>,
                [i \in 1..(Len(data) - 1) |->
                    ListCompactItem(config, data[i + 1], i + 1)]))

\* ListPage._render_compact
ListRenderCompact(config, data) ==
    IF \E i \in 1..Len(data) : BadgeFaults(config, data[i])
    THEN Raised("AttributeError")
    ELSE Returned(Component("compact", <<>>,
                     [i \in 1..Len(data) |-> ListCompactItem(config, data[i], i)]))

\* ListPage.render
ListPageRender(config, data) ==
    IF data.items = <<>> THEN Returned(ListRenderEmpty(config))
    ELSE CASE config.variant = "table" -> ListRenderTable(config, data.items)
           [] config.variant = "cards" -> ListRenderCards(config, data.items)
           [] config.variant = "compact" -> ListRenderCompact(config, data.items)
           [] OTHER -> ListRenderTable(config, data.items)

StatConfig(label, value_key, icon, color) ==
    [label |-> label, value_key |-> value_key, icon |-> icon, color |-> color]

\* DashboardPageConfig(**config)
DashboardPageConfig(variant, title, stats, recent_items_key, recent_items_title, recent_items_limit) ==
    [variant |-> variant, title |-> title, stats |-> stats,
     recent_items_key |-> recent_items_key,
     recent_items_title |-> recent_items_title,
     recent_items_limit |-> recent_items_limit]

\* color_map.get(stat.color, "#3b82f6")
StatColor(color) ==
    CASE color = "blue" -> "#3b82f6"
      [] color = "green" -> "#22c55e"
      [] color = "yellow" -> "#f59e0b"
      [] color = "red" -> "#ef4444"
      [] color = "purple" -> "#8b5cf6"
      [] color = "gray" -> "#6b7280"
      [] OTHER -> "#3b82f6"

\* DashboardPage._render_stats: data.get is an attribute of a dict only
DashboardRenderStats(config, data) ==
    IF data.t # "dict" THEN Raised("AttributeError")
    ELSE Returned([i \in 1..Len(config.stats) |->
            Component("stat", <<>>,
                <<[icon |-> config.stats[i].icon,
                   color |-> StatColor(config.stats[i].color),
                   value |-> StrOf(Get(data.items, config.stats[i].value_key, PyInt(0))),
                   label |-> config.stats[i].label]>>)])

\* DashboardPage._get_status_color
DashboardStatusColor(status) ==
    LET st == Lower(status)
    IN  CASE st = <<"o","p","e","n">> -> "#ef4444"
          [] st = <<"i","n","_","p","r","o","g","r","e","s","s">> -> "#f59e0b"
          [] st = <<"i","n"," ","p","r","o","g","r","e","s","s">> -> "#f59e0b"
          [] st = <<"r","e","s","o","l","v","e","d">> -> "#22c55e"
          [] st = <<"c","l","o","s","e","d">> -> "#6b7280"
          [] OTHER -> "#6b7280"

\* the block of one recent item, the i-th shown
RecentItem(item, i) ==
    LET title   == Get(item, <<"t","i","t","l","e">>, Get(item, <<"i","d">>, PyStr(<<"U","n","t","i","t","l","e","d">>)))
        status  == Get(item, <<"s","t","a","t","u","s">>, PyStr(<<>>))
        created == Get(item, <<"c","r","e","a","t","e","d","_","a","t">>, Get(item, <<"c","r","e","a","t","e","d">>, PyStr(<<>>)))
    IN  [title |-> StrOf(title), created |-> StrOf(created),
         status |-> IF Truthy(status) THEN StrOf(status) ELSE <<>>,
         status_color |-> DashboardStatusColor(status.s),
         border_top |-> i > 1]

\* DashboardPage._render_recent_items
DashboardRenderRecentItems(config, data) ==
    LET items == Slice(Get(data.items, config.recent_items_key, <<>>),
                       config.recent_items_limit)
    IN  <<Component("markdown", <<>>, <<"### ", config.recent_items_title>>)>>
        \o IF items = <<>>
           THEN <<Component("no_recent_items", <<>>, <<"No recent items">>)>>
           ELSE <<Component("recent_items", <<>>,
                     [i \in 1..Len(items) |-> RecentItem(items[i], i)])>>

\* `key in data`, data a dict or a list
KeyIn(key, data) == data.t = "dict" /\ HasKey(data.items, key)

\* DashboardPage.render
DashboardPageRender(config, data) ==
    LET heading == <<Component("markdown", <<>>, <<"## ", config.title>>)>>
        stats   == IF config.stats # <<>> THEN DashboardRenderStats(config, data)
                   ELSE Returned(<<>>)
    IN  IF stats.status = "raised" THEN stats
        ELSE Returned(heading \o stats.ret
                \o IF KeyIn(config.recent_items_key, data)
                   THEN DashboardRenderRecentItems(config, data)
                   ELSE <<>>)

\* DemoApp._get_page_data
GetPageData(pg, data) ==
    IF HasKey(pg.source, "data_key")
       /\ HasKey(data, Get(pg.source, "data_key", ""))
    THEN Get(data, Get(pg.source, "data_key", ""), PyList(<<>>))
    ELSE IF HasKey(pg.source, "mock_data")
         THEN Get(pg.source, "mock_data", PyList(<<>>))
         ELSE PyList(<<>>)

-----------------------------------------------------------------------------
(* The pages DemoApp builds: configurations and data *)

\* the most rows of a list page's data
MaxRows == 3

\* the most items of a dashboard's recent items, and the largest limit
MaxItems == 8
MaxLimit == 6

\* rows of a list page: dicts of str values, the last without a title
ListRows ==
    << << [k |-> <<"i","d">>, v |-> PyStr(<<"I","N","C","-","2">>)], [k |-> <<"t","i","t","l","e">>, v |-> PyStr(<<"D","B">>)],
          [k |-> <<"s","t","a","t","u","s">>, v |-> PyStr(<<"O","p","e","n">>)],
          [k |-> <<"a","s","s","i","g","n","e","d","_","t","o">>, v |-> PyStr(<<"a","n","n">>)] >>,
       << [k |-> <<"i","d">>, v |-> PyStr(<<"I","N","C","-","1">>)], [k |-> <<"t","i","t","l","e">>, v |-> PyStr(<<"A","P","I">>)],
          [k |-> <<"s","t","a","t","u","s">>, v |-> PyStr(<<>>)] >>,
       << [k |-> <<"i","d">>, v |-> PyStr(<<"I","N","C","-","3">>)],
          [k |-> <<"s","t","a","t","u","s">>, v |-> PyStr(<<"R","e","s","o","l","v","e","d">>)] >> >>

\* the lists of at most MaxRows rows, in any order, repetitions included
ListData ==
    UNION { [1..n -> {ListRows[i] : i \in 1..Len(ListRows)}] : n \in 0..MaxRows }

\* columns as the incidents page declares them
IncidentColumns ==
    << ColumnConfig(<<"i","d">>, "ID", "text"), ColumnConfig(<<"t","i","t","l","e">>, "Title", "text"),
       ColumnConfig(<<"s","t","a","t","u","s">>, "Status", "badge") >>

\* the "config" dicts of list pages, before _build_page sets the variant
ListConfigs ==
    { ListPageConfig("table", columns, keys[1], keys[2], "No incidents", descr) :
        columns \in {<<>>, IncidentColumns},
        keys \in {<<PyNone, PyNone>>, <<PyStr(<<"i","d">>), PyStr(<<"s","t","a","t","u","s">>)>>},
        descr \in {PyNone, PyStr(<<"A","l","l"," ","s","y","s","t","e","m","s"," ","o","p","e","r","a","t","i","o","n","a","l","!">>)} }

\* the "variant" of a page dict, "" when the page dict has none
ListVariants == {"", "table", "cards", "compact"}

\* the i-th item of a dashboard's data: ids out of order, every second item
\* without a title
RecentItemOf(i) ==
    << [k |-> <<"i","d">>, v |-> PyStr(<<"I","N","C","-">> \o StrOfInt(1000 + ((i * 5) % 9)))] >>
    \o (IF i % 2 = 1 THEN << [k |-> <<"t","i","t","l","e">>, v |-> PyStr(<<"T">> \o StrOfInt(9 - (i % 9)))] >>
        ELSE <<>>)
    \o << [k |-> <<"s","t","a","t","u","s">>,
           v |-> PyStr(CASE i % 3 = 0 -> <<"O","p","e","n">> [] i % 3 = 1 -> <<"I","n"," ","P","r","o","g","r","e","s","s">>
                         [] OTHER -> <<>>)] >>

\* the data of a dashboard with n items; the first stat is counted, the
\* second is missing
DashboardData(n) ==
    PyDict(<< [k |-> <<"o","p","e","n","_","c","o","u","n","t">>, v |-> PyInt(2)],
              [k |-> <<"r","e","c","e","n","t","_","i","t","e","m","s">>, v |-> [i \in 1..n |-> RecentItemOf(i)]] >>)

\* the data of a dashboard without recent items
DashboardDataWithoutItems == PyDict(<< [k |-> <<"o","p","e","n","_","c","o","u","n","t">>, v |-> PyInt(2)] >>)

DashboardStats ==
    << StatConfig("Open", <<"o","p","e","n","_","c","o","u","n","t">>, "(o)", "red"),
       StatConfig("Total", <<"t","o","t","a","l","_","c","o","u","n","t">>, "(t)", "blue") >>

\* how a page dict names its data: by data_key, by a data_key that
\* AppConfig.data lacks, by mock_data, or not at all
SourceKinds == {"data_key", "unknown_key", "mock_data", "none"}

PageSource(kind, d) ==
    CASE kind = "data_key" -> << [k |-> "data_key", v |-> "items"] >>
      [] kind = "unknown_key" -> << [k |-> "data_key", v |-> "items"] >>
      [] kind = "mock_data" -> << [k |-> "mock_data", v |-> d] >>
      [] OTHER -> <<>>

AppData(kind, d) ==
    IF kind = "data_key" THEN << [k |-> "items", v |-> d] >> ELSE <<>>

\* page_config.get("variant", "standard")
PageVariant(pg) == IF pg.variant = "" THEN "standard" ELSE pg.variant

\* the orchestrator is not called while pages are built
OrchestratorIdle ==
    /\ blueprint = IT_INCIDENT_BLUEPRINT
    /\ constructed = blueprint
    /\ input_data = <<>>
    /\ result = NotCalled
    /\ relevant = NotCalled
    /\ runs = [r \in RunIds |-> NoRun]

PageInit ==
    /\ OrchestratorIdle
    /\ NoForm
    /\ ShellIdle
    /\ rendered = NotCalled
    /\ \E kind \in SourceKinds :
        \/ \E config \in ListConfigs, variant \in ListVariants, d \in ListData :
              /\ page = [page |-> "list", variant |-> variant, config |-> config,
                         source |-> PageSource(kind, PyList(d))]
              /\ app_data = AppData(kind, PyList(d))
        \/ \E stats \in {<<>>, DashboardStats}, limit \in 0..MaxLimit,
              n \in 0..(MaxItems + 1) :
              LET d == IF n <= MaxItems THEN DashboardData(n)
                       ELSE DashboardDataWithoutItems
              IN  /\ page = [page |-> "dashboard", variant |-> "metrics",
                             config |-> DashboardPageConfig("metrics", "Overview",
                                 stats, <<"r","e","c","e","n","t","_","i","t","e","m","s">>, "Recent Incidents", limit),
                             source |-> PageSource(kind, d)]
                  /\ app_data = AppData(kind, d)

\* DemoApp._build_page for a list page
BuildListPage ==
    /\ page.page = "list"
    /\ rendered = NotCalled
    /\ LET config == [page.config EXCEPT !.variant = PageVariant(page)]
       IN  /\ page' = [page EXCEPT !.config = config]
           /\ rendered' = ListPageRender(config, GetPageData(page, app_data))
    /\ UNCHANGED <<shellVars, blueprint, constructed, directVars, runs, app_data, formVars>>

\* DemoApp._build_page for a dashboard page
BuildDashboardPage ==
    /\ page.page = "dashboard"
    /\ rendered = NotCalled
    /\ LET config == [page.config EXCEPT !.variant = PageVariant(page)]
       IN  /\ page' = [page EXCEPT !.config = config]
           /\ rendered' = DashboardPageRender(config, GetPageData(page, app_data))
    /\ UNCHANGED <<shellVars, blueprint, constructed, directVars, runs, app_data, formVars>>

PageNext == BuildListPage \/ BuildDashboardPage

PageSpec == PageInit /\ [][PageNext]_vars

-----------------------------------------------------------------------------
(* C16 .. C18: list page and dashboard *)

\* the data the page being built is given
PageData == GetPageData(page, app_data)

\* a list page has been built
ListBuilt == page.page = "list" /\ rendered # NotCalled

\* a dashboard has been built
DashboardBuilt == page.page = "dashboard" /\ rendered # NotCalled

\* the component kind each variant of a list page renders its rows as
KindOfVariant(variant) ==
    CASE variant = "cards" -> "cards"
      [] variant = "compact" -> "compact"
      [] OTHER -> "dataframe"

\* C16: a list page given rows renders exactly one row, card or item per
\* input row, in input order, in the variants table, cards and compact and in
\* an unknown variant, which renders as a table: the i-th rendered element
\* shows the i-th input row.
C16_OneRenderedPerRowInOrder ==
    (ListBuilt /\ PageData.items # <<>>) =>
        /\ rendered.status = "returned"
        /\ rendered.ret.kind = KindOfVariant(page.variant)
        /\ Len(rendered.ret.body) = Len(PageData.items)
        /\ \A i \in 1..Len(PageData.items) :
              IF rendered.ret.kind = "dataframe"
              THEN rendered.ret.body[i][1] = Get(PageData.items[i], <<"i","d">>, PyNone).s
              ELSE rendered.ret.body[i].title
                     = Get(PageData.items[i], <<"t","i","t","l","e">>, PyStr(<<"U","n","t","i","t","l","e","d">>)).s

\* a page of unknown variant has rendered three rows that are out of the
\* order of their ids, one of them twice, as a table
C16_Witness ==
    /\ ListBuilt
    /\ page.variant = ""
    /\ PageData.items = <<ListRows[3], ListRows[1], ListRows[1]>>
    /\ rendered.status = "returned"
    /\ rendered.ret.kind = "dataframe"
    /\ Len(rendered.ret.body) = 3

\* C17: a list page given no rows renders the empty state - empty_title, and
\* empty_description when it is set - and raises no error, in every variant,
\* with columns configured or not.
C17_EmptyDataRendersEmptyState ==
    (ListBuilt /\ PageData.items = <<>>) =>
        /\ rendered.status = "returned"
        /\ rendered.ret.kind = "empty"
        /\ rendered.ret.body =
              IF page.config.empty_description.t = "str"
              THEN <<page.config.empty_title, page.config.empty_description.s>>
              ELSE <<page.config.empty_title>>

\* a cards page without columns and without any data source has rendered the
\* empty state with its description
C17_Witness ==
    /\ ListBuilt
    /\ page.source = <<>>
    /\ page.variant = "cards"
    /\ page.config.columns = <<>>
    /\ page.config.empty_description.t = "str"
    /\ rendered.status = "returned"
    /\ rendered.ret.kind = "empty"
    /\ Len(rendered.ret.body) = 2

\* the blocks of recent items a built dashboard shows
ShownItems ==
    LET last == rendered.ret[Len(rendered.ret)]
    IN  IF last.kind = "recent_items" THEN last.body ELSE <<>>

\* C18: a dashboard whose data holds n recent items shows exactly the first
\* min(limit, n) of them, in input order, for every limit (a count: 0, 1,
\* 2, ...).
C18_RecentItemsFirstUpToLimit ==
    (DashboardBuilt /\ KeyIn(page.config.recent_items_key, PageData)) =>
        LET items == Get(PageData.items, page.config.recent_items_key, <<>>)
            limit == page.config.recent_items_limit
        IN  /\ rendered.status = "returned"
            /\ Len(ShownItems) = Min(limit, Len(items))
            /\ \A i \in 1..Len(ShownItems) :
                  ShownItems[i].title
                    = Get(items[i], <<"t","i","t","l","e">>, Get(items[i], <<"i","d">>, PyNone)).s

\* a dashboard of limit 5 given 8 items shows 5
C18_Witness ==
    /\ DashboardBuilt
    /\ KeyIn(page.config.recent_items_key, PageData)
    /\ page.config.recent_items_limit = 5
    /\ Len(Get(PageData.items, page.config.recent_items_key, <<>>)) = 8
    /\ rendered.status = "returned"
    /\ Len(ShownItems) = 5

-----------------------------------------------------------------------------
(* The form page: FormPage.render and DemoApp._connect_form_to_orchestrator *)

\* the most submissions of the form
MaxSubmissions == 2

FieldConfig(key, type, options) == [key |-> key, type |-> type, options |-> options]

\* d[k] = v on a dict: a key the dict has keeps its place
DictSet(d, k, v) ==
    IF HasKey(d, k)
    THEN [i \in 1..Len(d) |-> IF d[i].k = k THEN [k |-> k, v |-> v] ELSE d[i]]
    ELSE Append(d, [k |-> k, v |-> v])

RECURSIVE FieldComponentsUpTo(_, _)
\* self._field_components after the first n fields are rendered; the
\* component of the i-th declared field is named by i
FieldComponentsUpTo(fs, n) ==
    IF n = 0 THEN <<>>
    ELSE DictSet(FieldComponentsUpTo(fs, n - 1), fs[n].key, n)

\* self._field_components after FormPage.render
FieldComponents(fs) == FieldComponentsUpTo(fs, Len(fs))

\* a buggy key list, in the reverse of the order of the components
GetFieldKeysReversed(fs) ==
    LET d == FieldComponents(fs) IN [i \in 1..Len(d) |-> d[Len(d) + 1 - i].k]

\* FormPage.get_field_keys
GetFieldKeys(fs) ==
    LET d == FieldComponents(fs) IN [i \in 1..Len(d) |-> d[i].k]

\* inputs=list(fields.values()): the components whose values the handler gets
FormInputs(fs) ==
    LET d == FieldComponents(fs) IN [i \in 1..Len(d) |-> d[i].v]

RECURSIVE DictOfZipUpTo(_, _, _)
DictOfZipUpTo(keys, values, n) ==
    IF n = 0 THEN <<>>
    ELSE DictSet(DictOfZipUpTo(keys, values, n - 1), keys[n], values[n])

\* dict(zip(keys, values))
DictOfZip(keys, values) ==
    DictOfZipUpTo(keys, values, Min(Len(keys), Len(values)))

\* the input_data process_form builds of the values the components hold
ProcessFormInput(fs, values) ==
    DictOfZip(GetFieldKeys(fs),
              [i \in 1..Len(FormInputs(fs)) |-> values[FormInputs(fs)[i]]])

\* the value a component holds before the user enters one
InitialValue(field) ==
    IF field.type \in {"select", "number"} THEN PyNone ELSE PyStr(<<>>)

\* the values a user may give a component
FieldChoices(field) ==
    CASE field.type = "select" ->
           {PyNone} \cup {PyStr(field.options[i]) : i \in 1..Len(field.options)}
      [] field.type = "number" -> {PyNone, PyInt(100)}
      [] field.type = "textarea" -> {PyStr(<<>>), PyStr(<<"C","P","U"," ","e","r","r","o","r">>)}
      [] OTHER -> {PyStr(<<>>), PyStr(<<"D","B"," ","C","r","i","t","i","c","a","l">>)}

\* a buggy handler that reveals the container whatever the call did
ProcessFormOutputsAlways(container, res) ==
    [visible |-> TRUE, processing_html |-> "",
     result_output |-> <<"### Result", res.ret>>]

\* the outputs of process_form on the components: those it returns when
\* process returned, none when process raised
ProcessFormOutputs(container, res) ==
    IF res.status = "returned"
    THEN [visible |-> TRUE, processing_html |-> "",
          result_output |-> <<"### Result", res.ret>>]
    ELSE container

\* the form of the IT service desk
ItForm ==
    << FieldConfig("title", "text", <<>>),
       FieldConfig("description", "textarea", <<>>),
       FieldConfig("affected_system", "select", <<<<"D","a","t","a","b","a","s","e">>>>) >>

\* forms declaring the fields in another order and a description that is a
\* number
Forms ==
    { ItForm,
      << FieldConfig("affected_system", "select", <<<<"D","a","t","a","b","a","s","e">>>>),
         FieldConfig("title", "text", <<>>) >>,
      << FieldConfig("description", "number", <<>>),
         FieldConfig("title", "text", <<>>) >> }

FormInit ==
    /\ OrchestratorIdle
    /\ NoPageBuilt
    /\ ShellIdle
    /\ fields \in Forms
    /\ field_values = [i \in 1..Len(fields) |-> InitialValue(fields[i])]
    /\ result_container =
          [visible |-> FALSE, processing_html |-> "", result_output |-> <<>>]
    /\ calls = <<>>

\* a call of process_form is waiting for orchestrator.process
CallInProgress == calls # <<>> /\ calls[Len(calls)].state = "running"

\* the user enters a value in a component
EditField ==
    /\ \E i \in 1..Len(fields) :
          \E v \in FieldChoices(fields[i]) \ {field_values[i]} :
              field_values' = [field_values EXCEPT ![i] = v]
    /\ UNCHANGED <<shellVars, blueprint, constructed, directVars, runs, pageVars,
                   fields, result_container, calls>>

\* the user clicks submit: process_form gets the values of its inputs, builds
\* input_data and calls orchestrator.process
SubmitForm ==
    /\ ~CallInProgress
    /\ Len(calls) < MaxSubmissions
    /\ calls' = Append(calls, [input |-> ProcessFormInput(fields, field_values),
                               state |-> "running"])
    /\ UNCHANGED <<shellVars, blueprint, constructed, directVars, runs, pageVars,
                   fields, field_values, result_container>>

\* orchestrator.process comes back to process_form, whose outputs are set on
\* the components if it returns them
ProcessFormReturns ==
    /\ CallInProgress
    /\ \E n \in RandomDraws :
          LET res == Process(blueprint, calls[Len(calls)].input, n)
          IN  /\ calls' = [calls EXCEPT ![Len(calls)].state = res.status]
              /\ result_container' = ProcessFormOutputs(result_container, res)
    /\ UNCHANGED <<shellVars, blueprint, constructed, directVars, runs, pageVars,
                   fields, field_values>>

FormNext == EditField \/ SubmitForm \/ ProcessFormReturns

FormSpec == FormInit /\ [][FormNext]_vars

-----------------------------------------------------------------------------
(* C19, C20 *)

\* C19: on submission the values are gathered in the declared order of the
\* fields and handed to orchestrator.process as a map with one entry per
\* declared field, each value under the key of the field it was entered in.
C19_SubmissionPairsValuesWithKeys ==
    [][Len(calls') > Len(calls) =>
          LET handed == calls'[Len(calls')].input
          IN  /\ Len(handed) = Len(fields)
              /\ \A i \in 1..Len(fields) :
                    /\ handed[i].k = fields[i].key
                    /\ handed[i].v = field_values[i]]_vars

\* the form of the IT service desk was submitted with a title and a system
\* entered, and process has returned
C19_Witness ==
    /\ fields = ItForm
    /\ calls # <<>>
    /\ calls[1].state = "returned"
    /\ calls[1].input[1] = [k |-> "title", v |-> PyStr(<<"D","B"," ","C","r","i","t","i","c","a","l">>)]
    /\ calls[1].input[2] = [k |-> "description", v |-> PyStr(<<>>)]
    /\ calls[1].input[3] = [k |-> "affected_system", v |-> PyStr(<<"D","a","t","a","b","a","s","e">>)]

\* a process call of some submission has returned
SomeCallReturned == \E i \in 1..Len(calls) : calls[i].state = "returned"

\* C20 as stated: the result container is visible only when a submission's
\* process call has returned, and never while a call is in progress.
C20_VisibleOnlyAfterNeverDuring ==
    result_container.visible => (SomeCallReturned /\ ~CallInProgress)

\* C20 amended: the result container is hidden initially and is visible
\* exactly when the process call of some submission has returned; it stays
\* visible while the call of a later submission is in progress, and a call
\* that raises leaves it as it was.
C20_VisibleIffSomeCallReturned ==
    result_container.visible <=> SomeCallReturned

\* the container is visible while the call of a second submission is in
\* progress
C20_Witness ==
    /\ result_container.visible
    /\ Len(calls) = 2
    /\ calls[1].state = "returned"
    /\ CallInProgress

-----------------------------------------------------------------------------
(* Page templates constructed of config dicts: XPage.__init__(config) *)

\* a dataclass field that has no default
Required == [t |-> "required", s |-> <<>>, n |-> 0]

\* the fields of the dataclasses, each with its default
ColumnConfigFields ==
    << [k |-> "key", v |-> Required], [k |-> "label", v |-> Required],
       [k |-> "width", v |-> PyNone], [k |-> "type", v |-> PyStr(<<"t","e","x","t">>)] >>

ListPageConfigFields ==
    << [k |-> "variant", v |-> PyStr(<<"t","a","b","l","e">>)], [k |-> "title", v |-> PyStr(<<"I","t","e","m","s">>)],
       [k |-> "columns", v |-> PyNone],
       [k |-> "card_title_key", v |-> PyStr(<<"t","i","t","l","e">>)],
       [k |-> "card_subtitle_key", v |-> PyNone],
       [k |-> "card_badge_key", v |-> PyNone],
       [k |-> "empty_title", v |-> PyStr(<<"N","o"," ","i","t","e","m","s"," ","y","e","t">>)],
       [k |-> "empty_description", v |-> PyNone],
       [k |-> "on_item_click", v |-> PyNone] >>

SectionConfigFields ==
    << [k |-> "title", v |-> Required], [k |-> "type", v |-> PyStr(<<"k","e","y","_","v","a","l","u","e">>)],
       [k |-> "fields", v |-> PyNone], [k |-> "content_key", v |-> PyNone],
       [k |-> "events_key", v |-> PyNone] >>

DetailPageConfigFields ==
    << [k |-> "variant", v |-> PyStr(<<"s","t","a","n","d","a","r","d">>)],
       [k |-> "title_key", v |-> PyStr(<<"t","i","t","l","e">>)],
       [k |-> "subtitle_key", v |-> PyNone], [k |-> "badges", v |-> PyList(<<>>)],
       [k |-> "sections", v |-> PyList(<<>>)],
       [k |-> "timeline_events_key", v |-> PyStr(<<"t","i","m","e","l","i","n","e">>)] >>

FieldConfigFields ==
    << [k |-> "key", v |-> Required], [k |-> "label", v |-> Required],
       [k |-> "type", v |-> PyStr(<<"t","e","x","t">>)], [k |-> "placeholder", v |-> PyStr(<<>>)],
       [k |-> "required", v |-> PyInt(0)], [k |-> "options", v |-> PyNone],
       [k |-> "rows", v |-> PyInt(3)] >>

FormPageConfigFields ==
    << [k |-> "variant", v |-> PyStr(<<"s","t","a","n","d","a","r","d">>)], [k |-> "title", v |-> PyStr(<<"S","u","b","m","i","t">>)],
       [k |-> "description", v |-> PyNone], [k |-> "fields", v |-> PyList(<<>>)],
       [k |-> "submit_label", v |-> PyStr(<<"S","u","b","m","i","t">>)],
       [k |-> "processing_label", v |-> PyStr(<<"P","r","o","c","e","s","s","i","n","g",".",".",".">>)] >>

StatConfigFields ==
    << [k |-> "label", v |-> Required], [k |-> "value_key", v |-> Required],
       [k |-> "icon", v |-> PyStr(<<>>)], [k |-> "color", v |-> PyStr(<<"b","l","u","e">>)] >>

DashboardPageConfigFields ==
    << [k |-> "variant", v |-> PyStr(<<"m","e","t","r","i","c","s">>)], [k |-> "title", v |-> PyStr(<<"D","a","s","h","b","o","a","r","d">>)],
       [k |-> "stats", v |-> PyList(<<>>)],
       [k |-> "recent_items_key", v |-> PyStr(<<"r","e","c","e","n","t","_","i","t","e","m","s">>)],
       [k |-> "recent_items_title", v |-> PyStr(<<"R","e","c","e","n","t"," ","I","t","e","m","s">>)],
       [k |-> "recent_items_limit", v |-> PyInt(5)] >>

\* Cls(**d) of a dataclass with the fields flds: a keyword that is no field,
\* or a field without default that d lacks, raises TypeError
Dataclass(flds, d) ==
    IF \E i \in 1..Len(d) : ~HasKey(flds, d[i].k) THEN Raised("TypeError")
    ELSE IF \E i \in 1..Len(flds) : flds[i].v = Required /\ ~HasKey(d, flds[i].k)
    THEN Raised("TypeError")
    ELSE Returned([i \in 1..Len(flds) |->
                      [k |-> flds[i].k, v |-> Get(d, flds[i].k, flds[i].v)]])

\* `key in config and config[key]`, the value a list or None
HasItems(config, key) ==
    HasKey(config, key) /\ Get(config, key, PyNone).t = "list"
        /\ Get(config, key, PyNone).items # <<>>

\* [Cls(**c) if isinstance(c, dict) else c for c in config[key]]
ConvertedItems(flds, items) ==
    [i \in 1..Len(items) |->
        IF items[i].t = "dict" THEN Dataclass(flds, items[i].items)
        ELSE Returned(items[i])]

\* XPage.__init__(config), config a dict: the items under `key` are converted
\* in the dict itself, then the dict is handed to the page's dataclass
PageTemplate(flds, key, itemFlds, config) ==
    IF ~HasItems(config, key) THEN Dataclass(flds, config)
    ELSE LET conv == ConvertedItems(itemFlds, Get(config, key, PyNone).items)
         IN  IF \E i \in 1..Len(conv) : conv[i].status = "raised"
             THEN Raised("TypeError")
             ELSE Dataclass(flds,
                     DictSet(config, key, PyList([i \in 1..Len(conv) |-> conv[i].ret])))

\* the config dict after XPage.__init__(config)
ConfigAfterInit(key, itemFlds, config) ==
    IF ~HasItems(config, key) THEN config
    ELSE LET conv == ConvertedItems(itemFlds, Get(config, key, PyNone).items)
         IN  IF \E i \in 1..Len(conv) : conv[i].status = "raised" THEN config
             ELSE DictSet(config, key, PyList([i \in 1..Len(conv) |-> conv[i].ret]))

\* the entries of s at the places in S, in the order of s
Pick(s, S) ==
    LET F[i \in 0..Len(s)] ==
            IF i = 0 THEN <<>>
            ELSE IF i \in S THEN Append(F[i - 1], s[i]) ELSE F[i - 1]
    IN  F[Len(s)]

\* entries a "config" dict may hold, by page type: fields of the page's
\* dataclass, then entries it does not declare
ConfigEntries(type) ==
    CASE type = "list" ->
           << [k |-> "title", v |-> PyStr(<<"I","n","c","i","d","e","n","t","s">>)],
              [k |-> "columns", v |-> PyList(<<PyDict(
                  << [k |-> "key", v |-> PyStr(<<"i","d">>)],
                     [k |-> "label", v |-> PyStr(<<"I","D">>)] >>)>>)],
              [k |-> "empty_title", v |-> PyStr(<<"N","o"," ","i","n","c","i","d","e","n","t","s">>)],
              [k |-> "sortable", v |-> PyInt(1)],
              [k |-> "emptyState", v |-> PyStr(<<"N","o","n","e">>)] >>
      [] type = "detail" ->
           << [k |-> "title_key", v |-> PyStr(<<"i","d">>)],
              [k |-> "sections", v |-> PyList(<<PyDict(
                  << [k |-> "title", v |-> PyStr(<<"D","e","t","a","i","l","s">>)] >>)>>)],
              [k |-> "subtitle_key", v |-> PyStr(<<"s","t","a","t","u","s">>)],
              [k |-> "title", v |-> PyStr(<<"I","n","c","i","d","e","n","t">>)],
              [k |-> "layout", v |-> PyStr(<<"w","i","d","e">>)] >>
      [] type = "form" ->
           << [k |-> "title", v |-> PyStr(<<"R","e","p","o","r","t"," ","N","e","w"," ","I","n","c","i","d","e","n","t">>)],
              [k |-> "fields", v |-> PyList(<<PyDict(
                  << [k |-> "key", v |-> PyStr(<<"t","i","t","l","e">>)],
                     [k |-> "label", v |-> PyStr(<<"T","i","t","l","e">>)],
                     [k |-> "required", v |-> PyInt(1)] >>)>>)],
              [k |-> "submit_label", v |-> PyStr(<<"S","u","b","m","i","t"," ","I","n","c","i","d","e","n","t">>)],
              [k |-> "submitLabel", v |-> PyStr(<<"S","e","n","d">>)],
              [k |-> "on_submit", v |-> PyNone] >>
      [] OTHER ->
           << [k |-> "title", v |-> PyStr(<<"O","v","e","r","v","i","e","w">>)],
              [k |-> "stats", v |-> PyList(<<PyDict(
                  << [k |-> "label", v |-> PyStr(<<"O","p","e","n">>)],
                     [k |-> "value_key", v |-> PyStr(<<"o","p","e","n","_","c","o","u","n","t">>)] >>)>>)],
              [k |-> "recent_items_title", v |-> PyStr(<<"R","e","c","e","n","t"," ","I","n","c","i","d","e","n","t","s">>)],
              [k |-> "recentItemsKey", v |-> PyStr(<<"r","e","c","e","n","t">>)],
              [k |-> "refresh", v |-> PyInt(30)] >>

PageTypes == {"list", "detail", "form", "dashboard"}

\* the configuration is that of no form, no built page and no app shell but
\* the template
TemplateInit ==
    /\ OrchestratorIdle
    /\ NoForm
    /\ app_data = <<>>
    /\ rendered = NotCalled
    /\ template = NotCalled
    /\ registry = <<>>
    /\ lookup = NotCalled
    /\ validation = NotCalled
    /\ NoApp
    /\ \E type \in PageTypes, variant \in {<<>>, <<"t","i","m","e","l","i","n","e">>} :
          \E S \in SUBSET (1..Len(ConfigEntries(type))) :
              page = [page |-> type, variant |-> variant,
                      config |-> Pick(ConfigEntries(type), S), source |-> <<>>]

\* the config dict _build_page hands to the template:
\* config["variant"] = page_config.get("variant", "standard")
ConfigOfPage(pg) ==
    DictSet(pg.config, "variant",
            PyStr(IF pg.variant = <<>> THEN <<"s","t","a","n","d","a","r","d">> ELSE pg.variant))

\* what is left unchanged when a template is constructed
TemplateFrame ==
    UNCHANGED <<blueprint, constructed, directVars, runs, app_data, rendered,
                formVars, registry, lookup, validation, app, containers, demo>>

\* ListPage.__init__(config), config the dict _build_page hands over
ConstructListPage ==
    /\ page.page = "list" /\ template = NotCalled
    /\ template' = PageTemplate(ListPageConfigFields, "columns",
                                ColumnConfigFields, ConfigOfPage(page))
    /\ page' = [page EXCEPT !.config =
                   ConfigAfterInit("columns", ColumnConfigFields, ConfigOfPage(page))]
    /\ TemplateFrame

\* DetailPage.__init__(config), config the dict _build_page hands over
ConstructDetailPage ==
    /\ page.page = "detail" /\ template = NotCalled
    /\ template' = PageTemplate(DetailPageConfigFields, "sections",
                                SectionConfigFields, ConfigOfPage(page))
    /\ page' = [page EXCEPT !.config =
                   ConfigAfterInit("sections", SectionConfigFields, ConfigOfPage(page))]
    /\ TemplateFrame

\* FormPage.__init__(config), config the dict _build_page hands over
ConstructFormPage ==
    /\ page.page = "form" /\ template = NotCalled
    /\ template' = PageTemplate(FormPageConfigFields, "fields",
                                FieldConfigFields, ConfigOfPage(page))
    /\ page' = [page EXCEPT !.config =
                   ConfigAfterInit("fields", FieldConfigFields, ConfigOfPage(page))]
    /\ TemplateFrame

\* DashboardPage.__init__(config), config the dict _build_page hands over
ConstructDashboardPage ==
    /\ page.page = "dashboard" /\ template = NotCalled
    /\ template' = PageTemplate(DashboardPageConfigFields, "stats",
                                StatConfigFields, ConfigOfPage(page))
    /\ page' = [page EXCEPT !.config =
                   ConfigAfterInit("stats", StatConfigFields, ConfigOfPage(page))]
    /\ TemplateFrame

TemplateNext ==
    \/ ConstructListPage
    \/ ConstructDetailPage
    \/ ConstructFormPage
    \/ ConstructDashboardPage

TemplateSpec == TemplateInit /\ [][TemplateNext]_vars

\* the fields of the dataclass of a page type
FieldsOf(type) ==
    CASE type = "list" -> ListPageConfigFields
      [] type = "detail" -> DetailPageConfigFields
      [] type = "form" -> FormPageConfigFields
      [] OTHER -> DashboardPageConfigFields

\* the config dict holds an entry that the dataclass of the page type lacks
HasUnknownField(pg) ==
    \E i \in 1..Len(pg.config) : ~HasKey(FieldsOf(pg.page), pg.config[i].k)

\* C21: constructing any of the four page templates from a config record does
\* not fail, also when the record holds an unknown field: the template is
\* returned, it holds exactly the fields of its dataclass (the unknown field
\* is ignored), and every field the record lacks holds its default.
C21_UnknownFieldsIgnoredDefaultsFilled ==
    template # NotCalled =>
        /\ template.status = "returned"
        /\ Len(template.ret) = Len(FieldsOf(page.page))
        /\ \A i \in 1..Len(FieldsOf(page.page)) :
              LET f == FieldsOf(page.page)[i]
              IN  /\ template.ret[i].k = f.k
                  /\ ~HasKey(page.config, f.k) => template.ret[i].v = f.v

\* a template of a config dict without unknown fields is constructed, and the
\* fields the dict lacks hold their defaults
C21_KnownFieldsOnly ==
    (template # NotCalled /\ ~HasUnknownField(page)) =>
        /\ template.status = "returned"
        /\ \A i \in 1..Len(FieldsOf(page.page)) :
              LET f == FieldsOf(page.page)[i]
              IN  /\ template.ret[i].k = f.k
                  /\ ~HasKey(page.config, f.k) => template.ret[i].v = f.v

\* a config dict with an unknown field is never constructed into a template
C21_UnknownFieldRaises ==
    (template # NotCalled /\ HasUnknownField(page)) =>
        template = Raised("TypeError")

-----------------------------------------------------------------------------
(* Dashboards without data *)

\* the stat cards a built dashboard shows
ShownStats == SelectSeq(rendered.ret, LAMBDA c : c.kind = "stat")

\* the source of the page names no data: PageData is the [] of _get_page_data
NoDataSource == PageData = PyList(<<>>)

\* C22: a dashboard page that declares stat cards is built without error also
\* when it has no data source (no data_key found and no mock_data) or when its
\* data lacks a stat's value_key or the recent-items key: each stat whose
\* value_key the data lacks shows 0, and without the recent-items key no
\* recent-items list is shown.
C22_DashboardWithoutDataCompletes ==
    (DashboardBuilt /\ page.config.stats # <<>>) =>
        /\ rendered.status = "returned"
        /\ Len(ShownStats) = Len(page.config.stats)
        /\ \A i \in 1..Len(page.config.stats) :
              ~KeyIn(page.config.stats[i].value_key, PageData)
                  => ShownStats[i].body[1].value = <<"0">>
        /\ ~KeyIn(page.config.recent_items_key, PageData)
              => \A i \in 1..Len(rendered.ret) :
                    rendered.ret[i].kind \notin {"recent_items", "no_recent_items"}

\* the same of a dashboard whose data is a dict: the build completes, a stat
\* the dict lacks shows 0, and without the recent-items key no list is shown
C22_MissingKeysOfDictDefault ==
    (DashboardBuilt /\ page.config.stats # <<>> /\ PageData.t = "dict") =>
        /\ rendered.status = "returned"
        /\ Len(ShownStats) = Len(page.config.stats)
        /\ \A i \in 1..Len(page.config.stats) :
              ~KeyIn(page.config.stats[i].value_key, PageData)
                  => ShownStats[i].body[1].value = <<"0">>
        /\ ~KeyIn(page.config.recent_items_key, PageData)
              => \A i \in 1..Len(rendered.ret) :
                    rendered.ret[i].kind \notin {"recent_items", "no_recent_items"}

\* a dashboard with stat cards and no data source is never built
C22_StatsWithoutSourceRaise ==
    (DashboardBuilt /\ page.config.stats # <<>> /\ NoDataSource) =>
        rendered = Raised("AttributeError")

-----------------------------------------------------------------------------
(* The app registry and its validator *)

APPS_REGISTRY ==
    << [k |-> "dashboard", v |-> PyDict(
          << [k |-> "name", v |-> PyStr(<<"D","a","s","h","b","o","a","r","d">>)],
             [k |-> "hf_space", v |-> PyStr(<<"l","y","z","r","-","a","i","/","d","a","s","h","b","o","a","r","d">>)],
             [k |-> "url", v |-> PyStr(<<"h","t","t","p","s",":","/","/","d","a","s","h","b","o","a","r","d",".","l","y","z","r",".","s","p","a","c","e">>)],
             [k |-> "description", v |-> PyStr(<<"M","a","i","n"," ","d","a","s","h","b","o","a","r","d"," ","f","o","r"," ","t","h","e"," ","L","y","z","r"," ","e","c","o","s","y","s","t","e","m">>)] >>)],
       [k |-> "analytics", v |-> PyDict(
          << [k |-> "name", v |-> PyStr(<<"A","n","a","l","y","t","i","c","s">>)],
             [k |-> "hf_space", v |-> PyStr(<<"l","y","z","r","-","a","i","/","a","n","a","l","y","t","i","c","s">>)],
             [k |-> "url", v |-> PyStr(<<"h","t","t","p","s",":","/","/","a","n","a","l","y","t","i","c","s",".","l","y","z","r",".","s","p","a","c","e">>)],
             [k |-> "description", v |-> PyStr(<<"V","i","e","w"," ","a","n","d"," ","a","n","a","l","y","z","e"," ","y","o","u","r"," ","d","a","t","a">>)] >>)],
       [k |-> "it_service_desk", v |-> PyDict(
          << [k |-> "name", v |-> PyStr(<<"I","T"," ","S","e","r","v","i","c","e"," ","D","e","s","k">>)],
             [k |-> "hf_space", v |-> PyStr(<<"l","y","z","r","-","a","i","/","i","t","-","s","e","r","v","i","c","e","-","d","e","s","k">>)],
             [k |-> "url", v |-> PyStr(<<"h","t","t","p","s",":","/","/","i","t","-","s","e","r","v","i","c","e","-","d","e","s","k",".","l","y","z","r",".","s","p","a","c","e">>)],
             [k |-> "description", v |-> PyStr(<<"A","I","-","p","o","w","e","r","e","d"," ","I","n","c","i","d","e","n","t"," ","M","a","n","a","g","e","m","e","n","t"," ","S","y","s","t","e","m">>)] >>)] >>

REQUIRED_KEYS == <<"name", "hf_space", "url", "description">>

\* get_app_info, the registry being reg
get_app_info(reg, app_id) == Get(reg, app_id, PyNone)

\* get_app_url, the registry being reg: an empty entry counts as none
get_app_url(reg, app_id) ==
    LET entry == Get(reg, app_id, PyNone)
    IN  IF entry.t = "dict" /\ entry.items # <<>>
        THEN Get(entry.items, "url", PyNone)
        ELSE PyNone

\* the concatenation of the sequences of a sequence
RECURSIVE Concat(_)
Concat(ss) == IF ss = <<>> THEN <<>> ELSE Head(ss) \o Concat(Tail(ss))

\* an error of the validator: what is wrong, of which app, and for a duplicate
\* the value and the app that held it first
RegistryError(kind, app_id, key, value, first) ==
    [kind |-> kind, app_id |-> app_id, key |-> key, value |-> value, first |-> first]

validate_required_keys(reg) ==
    Concat([i \in 1..Len(reg) |->
        Concat([j \in 1..Len(REQUIRED_KEYS) |->
            IF ~HasKey(reg[i].v.items, REQUIRED_KEYS[j])
            THEN <<RegistryError("missing", reg[i].k, REQUIRED_KEYS[j], PyNone, "")>>
            ELSE <<>>])])

\* validate_unique_urls and validate_unique_hf_spaces: app_info.get(key) of
\* each app in turn, an error for each value seen before, naming the app that
\* held it first
ValidateUnique(reg, key) ==
    LET val(i) == Get(reg[i].v.items, key, PyNone)
    IN  Concat([i \in 1..Len(reg) |->
            IF \E j \in 1..(i - 1) : val(j) = val(i)
            THEN LET first == CHOOSE j \in 1..(i - 1) :
                                 /\ val(j) = val(i)
                                 /\ \A h \in 1..(j - 1) : val(h) # val(i)
                 IN  <<RegistryError("duplicate", reg[i].k, key, val(i), reg[first].k)>>
            ELSE <<>>])

validate_unique_urls(reg) == ValidateUnique(reg, "url")

validate_unique_hf_spaces(reg) == ValidateUnique(reg, "hf_space")

\* the outcome of a validation that found the errors
RegistryValidationError(errors) ==
    [status |-> "raised", exc |-> "RegistryValidationError", ret |-> errors]

\* a buggy validator that stops at the first check that finds errors
validate_registry_first_check(reg) ==
    LET missing == validate_required_keys(reg)
        urls    == validate_unique_urls(reg)
        spaces  == validate_unique_hf_spaces(reg)
    IN  IF missing # <<>> THEN RegistryValidationError(missing)
        ELSE IF urls # <<>> THEN RegistryValidationError(urls)
        ELSE IF spaces # <<>> THEN RegistryValidationError(spaces)
        ELSE Returned(PyNone)

validate_registry(reg) ==
    LET all_errors == validate_required_keys(reg) \o validate_unique_urls(reg)
                        \o validate_unique_hf_spaces(reg)
    IN  IF all_errors # <<>> THEN RegistryValidationError(all_errors)
        ELSE Returned(PyNone)

\* ways a registry differs from the shipped one: an app lacks a key, holds
\* the shipped url or space of another app, or has an empty entry
Defects ==
    << [op |-> "drop", app |-> 2, key |-> "name", from |-> 0],
       [op |-> "drop", app |-> 1, key |-> "url", from |-> 0],
       [op |-> "drop", app |-> 3, key |-> "url", from |-> 0],
       [op |-> "copy", app |-> 2, key |-> "url", from |-> 1],
       [op |-> "copy", app |-> 3, key |-> "hf_space", from |-> 1],
       [op |-> "copy", app |-> 3, key |-> "url", from |-> 1],
       [op |-> "drop", app |-> 3, key |-> "description", from |-> 0],
       [op |-> "clear", app |-> 2, key |-> "", from |-> 0] >>

\* the registry reg with the defect d
WithDefect(reg, d) ==
    LET info == reg[d.app].v.items
        new  == CASE d.op = "drop" -> SelectSeq(info, LAMBDA e : e.k # d.key)
                  [] d.op = "copy" ->
                       DictSet(info, d.key, Get(APPS_REGISTRY[d.from].v.items, d.key, PyNone))
                  [] OTHER -> <<>>
    IN  [reg EXCEPT ![d.app] = [k |-> reg[d.app].k, v |-> PyDict(new)]]

\* the shipped registry with the defects at the places in S, applied in turn
RegistryWith(S) ==
    LET F[i \in 0..Len(Defects)] ==
            IF i = 0 THEN APPS_REGISTRY
            ELSE IF i \in S THEN WithDefect(F[i - 1], Defects[i]) ELSE F[i - 1]
    IN  F[Len(Defects)]

Registries == { RegistryWith(S) : S \in SUBSET (1..Len(Defects)) }

\* the ids looked up: those of the shipped apps and one of no app
AppIds == {"dashboard", "analytics", "it_service_desk", "helpdesk"}

RegistryInit ==
    /\ OrchestratorIdle
    /\ NoForm
    /\ NoPageBuilt
    /\ NoApp
    /\ template = NotCalled
    /\ lookup = NotCalled
    /\ validation = NotCalled
    /\ registry \in Registries

\* what the registry functions leave unchanged
RegistryFrame ==
    UNCHANGED <<blueprint, constructed, directVars, runs, pageVars, formVars,
                template, registry, app, containers, demo>>

\* a call of get_app_info
GetAppInfo ==
    /\ \E app_id \in AppIds :
          lookup' = [fn |-> "get_app_info", app_id |-> app_id,
                     outcome |-> Returned(get_app_info(registry, app_id))]
    /\ UNCHANGED validation
    /\ RegistryFrame

\* a call of get_app_url
GetAppUrl ==
    /\ \E app_id \in AppIds :
          lookup' = [fn |-> "get_app_url", app_id |-> app_id,
                     outcome |-> Returned(get_app_url(registry, app_id))]
    /\ UNCHANGED validation
    /\ RegistryFrame

\* a call of validate_registry() or validate_registry(APPS_REGISTRY)
ValidateRegistry ==
    /\ validation' = validate_registry(registry)
    /\ UNCHANGED lookup
    /\ RegistryFrame

RegistryNext == GetAppInfo \/ GetAppUrl \/ ValidateRegistry

RegistrySpec == RegistryInit /\ [][RegistryNext]_vars

\* the apps of a registry that lack a required key, each with the key
MissingKeys(reg) ==
    { ik \in (1..Len(reg)) \X {REQUIRED_KEYS[j] : j \in 1..Len(REQUIRED_KEYS)} :
        ~HasKey(reg[ik[1]].v.items, ik[2]) }

\* the apps of a registry whose value under key is that of an earlier app
Sharing(reg, key) ==
    { j \in 1..Len(reg) :
        \E i \in 1..(j - 1) :
            /\ HasKey(reg[i].v.items, key) /\ HasKey(reg[j].v.items, key)
            /\ Get(reg[i].v.items, key, PyNone) = Get(reg[j].v.items, key, PyNone) }

\* the registry violates what the validator checks
Violated(reg) ==
    MissingKeys(reg) # {} \/ Sharing(reg, "url") # {} \/ Sharing(reg, "hf_space") # {}

\* the errors name every violation of the registry
ReportsAll(errors, reg) ==
    /\ \A ik \in MissingKeys(reg) :
          \E n \in 1..Len(errors) :
              /\ errors[n].kind = "missing"
              /\ errors[n].app_id = reg[ik[1]].k
              /\ errors[n].key = ik[2]
    /\ \A key \in {"url", "hf_space"} : \A j \in Sharing(reg, key) :
          \E n \in 1..Len(errors) :
              /\ errors[n].kind = "duplicate"
              /\ errors[n].key = key
              /\ errors[n].app_id = reg[j].k
              /\ errors[n].value = Get(reg[j].v.items, key, PyNone)
              /\ errors[n].value = Get(Get(reg, errors[n].first, PyNone).items, key, PyNone)

\* what a finished validation says of the registry
ValidationAgrees ==
    validation # NotCalled =>
        /\ validation.status = "raised" <=> Violated(registry)
        /\ validation.status = "raised" =>
              /\ validation.exc = "RegistryValidationError"
              /\ ReportsAll(validation.ret, registry)
        /\ registry = APPS_REGISTRY => validation = Returned(PyNone)

\* C30: validate_registry raises RegistryValidationError exactly when some app
\* lacks a required key (name, hf_space, url, description) or two apps share a
\* url or an hf_space; the error reports every violation, not only the first;
\* no step changes the registry; the shipped APPS_REGISTRY passes.
C30_ValidatorRaisesIffViolatedReportsAll ==
    [][registry' = registry /\ ValidationAgrees']_vars

\* a registry with missing keys, a shared url and a shared space was
\* validated, and the error names all of them
C30_Witness ==
    /\ validation.status = "raised"
    /\ MissingKeys(registry) # {}
    /\ Sharing(registry, "url") # {}
    /\ Sharing(registry, "hf_space") # {}
    /\ ReportsAll(validation.ret, registry)
    /\ Len(validation.ret) >= 3

\* the shipped registry was validated and passed
C30_ShippedPasses ==
    (registry = APPS_REGISTRY /\ validation # NotCalled) => validation = Returned(PyNone)

-----------------------------------------------------------------------------
(* AppBase: construction, pages, build and the login gate *)

\* the most calls of build() on one app
MaxBuilds == 2

\* the pages register_pages adds: those of DashboardApp and AnalyticsApp, and
\* none for a subclass whose register_pages adds no page
RegisterPages(cls) ==
    IF cls \in {"DashboardApp", "AnalyticsApp"}
    THEN << [name |-> "Home", path |-> "/"], [name |-> "Settings", path |-> "/settings"] >>
    ELSE <<>>

AppClasses == {"DashboardApp", "AnalyticsApp", "EmptyApp"}

\* `not app_info`: no entry, or an empty one
NotAppInfo(app_info) == app_info.t # "dict" \/ app_info.items = <<>>

\* a buggy constructor that does not look the app up
AppBaseInitUnchecked(reg, cls, app_id) ==
    [constructed |-> Returned(get_app_info(reg, app_id)), cls |-> cls,
     app_id |-> app_id, pages |-> <<>>, builds |-> <<>>]

\* AppBase.__init__
AppBaseInit(reg, cls, app_id) ==
    LET app_info == get_app_info(reg, app_id)
    IN  [constructed |-> IF NotAppInfo(app_info) THEN Raised("ValueError")
                         ELSE Returned(app_info),
         cls |-> cls, app_id |-> app_id, pages |-> <<>>, builds |-> <<>>]

\* get_page_list
get_page_list(a) == a.pages

\* gr.OAuthProfile | None
NoProfile == [t |-> "none", name |-> ""]
Profiles == {NoProfile, [t |-> "profile", name |-> "Ada"]}

\* a buggy check that shows the app content whoever asks
check_auth_open(c, profile) ==
    [c EXCEPT !.landing_container = FALSE, !.app_container = TRUE,
              !.user_info = "Welcome", !.pending = FALSE,
              !.last_check = IF profile = NoProfile THEN "none_profile" ELSE "profile"]

\* check_auth, its three outputs applied to the containers
check_auth(c, profile) ==
    IF profile = NoProfile
    THEN [c EXCEPT !.landing_container = TRUE, !.app_container = FALSE,
                   !.user_info = "", !.pending = FALSE, !.last_check = "none_profile"]
    ELSE [c EXCEPT !.landing_container = FALSE, !.app_container = TRUE,
                   !.user_info = "Welcome", !.pending = FALSE,
                   !.last_check = "profile"]

\* the registries an app is constructed against: the shipped one, one with an
\* empty entry and one with an entry without url
AppRegistries == { RegistryWith(S) : S \in {{}, {8}, {2}} }

AppInit ==
    /\ OrchestratorIdle
    /\ NoForm
    /\ NoPageBuilt
    /\ NoApp
    /\ template = NotCalled
    /\ lookup = NotCalled
    /\ validation = NotCalled
    /\ registry \in AppRegistries

\* what the app leaves unchanged
AppFrame ==
    UNCHANGED <<blueprint, constructed, directVars, runs, pageVars, formVars,
                template, registry, validation, demo>>

\* a subclass of AppBase is constructed
ConstructApp ==
    /\ app = NoAppObject
    /\ \E cls \in AppClasses, app_id \in AppIds :
          app' = AppBaseInit(registry, cls, app_id)
    /\ UNCHANGED <<lookup, containers>>
    /\ AppFrame

\* app.build(): register_pages appends to _pages, no page raises, the first
\* page is the main page and the only one whose load runs check_auth
BuildApp ==
    /\ app.constructed.status = "returned"
    /\ Len(app.builds) < MaxBuilds
    /\ LET pages == app.pages \o RegisterPages(app.cls)
       IN  /\ app' = [app EXCEPT
                  !.pages = pages,
                  !.builds = Append(@,
                      IF pages = <<>> THEN Raised("ValueError")
                      ELSE Returned([i \in 1..Len(pages) |->
                               [name |-> pages[i].name, path |-> pages[i].path,
                                load |-> i = 1]]))]
           /\ containers' = NoPageOpen
    /\ UNCHANGED lookup
    /\ AppFrame

\* the Blocks the last build() returned, <<>> when there is none
BuiltPages ==
    IF app.builds # <<>> /\ app.builds[Len(app.builds)].status = "returned"
    THEN app.builds[Len(app.builds)].ret
    ELSE <<>>

\* a browser opens a page of the built app: the containers are as built,
\* and the load event of the page, if it has one, is pending
OpenPage ==
    /\ \E i \in 1..Len(BuiltPages) :
          containers' = [NoPageOpen EXCEPT !.page = i, !.pending = BuiltPages[i].load]
    /\ UNCHANGED <<app, lookup>>
    /\ AppFrame

\* the load event of the open page runs check_auth with the profile of the
\* session
CheckAuth ==
    /\ containers.pending
    /\ \E profile \in Profiles : containers' = check_auth(containers, profile)
    /\ UNCHANGED <<app, lookup>>
    /\ AppFrame

AppNext ==
    \/ ConstructApp
    \/ BuildApp
    \/ OpenPage
    \/ CheckAuth
    \/ GetAppInfo
    \/ GetAppUrl

AppSpec == AppInit /\ [][AppNext]_vars

-----------------------------------------------------------------------------
(* C23: a registry miss *)

\* what holds of a miss after a constructor and after a lookup
MissIsConstructionFailure ==
    /\ (app # NoAppObject /\ ~HasKey(registry, app.app_id)) =>
          /\ app.constructed = Raised("ValueError")
          /\ get_page_list(app) = <<>>
          /\ app.builds = <<>>
          /\ containers = NoPageOpen
    /\ (lookup # NotCalled /\ ~HasKey(registry, lookup.app_id)) =>
          lookup.outcome = Returned(PyNone)

\* C23: constructing an AppBase-derived app with an app_id that is no key of
\* the registry raises in the constructor, before any page is registered or
\* built (the app never has a page, a build or a container); get_app_info and
\* get_app_url report the miss as an absent value without raising; and no
\* step, lookup or construction, changes the registry.
C23_MissRaisesInConstructorLookupReturnsNone ==
    [][registry' = registry /\ MissIsConstructionFailure']_vars

\* an app of an id the registry lacks was constructed, which raised, and the
\* same id was looked up, which returned None
C23_Witness ==
    /\ app.constructed = Raised("ValueError")
    /\ ~HasKey(registry, app.app_id)
    /\ lookup # NotCalled
    /\ lookup.app_id = app.app_id
    /\ lookup.fn = "get_app_url"
    /\ lookup.outcome = Returned(PyNone)

-----------------------------------------------------------------------------
(* C28, C29: the login gate and the page list *)

\* C28: in every reachable state exactly one of the landing container and
\* the app container is visible; the app container is hidden before any auth
\* check, and it is visible only if the most recent auth check received a
\* profile: a check without profile shows the landing page and hides the app
\* content.
C28_ExactlyOneContainerVisible ==
    /\ containers.landing_container # containers.app_container
    /\ containers.last_check = "unchecked" => ~containers.app_container
    /\ containers.app_container => containers.last_check = "profile"
    /\ containers.last_check = "none_profile" =>
          containers.landing_container /\ ~containers.app_container

\* the main page is open and its check received a profile: the app content
\* is shown and the landing page hidden
C28_Witness ==
    /\ containers.page = 1
    /\ containers.last_check = "profile"
    /\ containers.app_container
    /\ ~containers.landing_container
    /\ Len(app.builds) = 1

\* a page without load event is open: its app content stays hidden
C28_RoutePageStaysOnLanding ==
    (containers.page > 1) =>
        /\ ~containers.pending
        /\ containers.last_check = "unchecked"
        /\ ~containers.app_container

\* no two pages of a list share a name or a path
NoDuplicates(pages) ==
    \A i, j \in 1..Len(pages) :
        i # j => pages[i].name # pages[j].name /\ pages[i].path # pages[j].path

\* the last call of build() on the app raised
LastBuildRaised == app.builds[Len(app.builds)].status = "raised"

\* C29: after any number of build() calls get_page_list() holds each page
\* that register_pages registers exactly once (no name and no path twice),
\* its first page is the one built as the main page, and build() raises
\* exactly when no page is registered.
C29_PageListHoldsEachPageOnce ==
    app.builds # <<>> =>
        /\ NoDuplicates(get_page_list(app))
        /\ get_page_list(app) = RegisterPages(app.cls)
        /\ LastBuildRaised <=> RegisterPages(app.cls) = <<>>
        /\ ~LastBuildRaised =>
              /\ BuiltPages[1].name = get_page_list(app)[1].name
              /\ BuiltPages[1].load

\* the same after the first build() only
C29_AfterFirstBuild ==
    Len(app.builds) = 1 =>
        /\ NoDuplicates(get_page_list(app))
        /\ get_page_list(app) = RegisterPages(app.cls)
        /\ LastBuildRaised <=> RegisterPages(app.cls) = <<>>
        /\ ~LastBuildRaised =>
              /\ BuiltPages[1].name = get_page_list(app)[1].name
              /\ BuiltPages[1].load

\* after n calls of build() the page list holds every registered page n times
C29_EveryBuildRegistersAgain ==
    Len(get_page_list(app)) = Len(app.builds) * Len(RegisterPages(app.cls))

-----------------------------------------------------------------------------
(* C24: a description with a resource and a deployment keyword *)

\* C24: when the description matches a resource keyword (cpu, memory) and a
\* deployment keyword (deploy, release), both optional pairs are appended to
\* the timeline, the resource pair first and the deployment pair second, and
\* both before the closing event.
C24_ResourcePairThenDeploymentPair ==
    (ItReturned /\ ResourceKeyword /\ DeploymentKeyword) =>
        LET tl == result.ret.timeline
        IN  /\ Len(tl) = 8
            /\ tl[4] = [time |-> <<"0","0",":","0","8">>, event |-> "Resource exhaustion detected",
                        agent |-> "System Monitoring"]
            /\ tl[5] = [time |-> <<"0","0",":","1","2">>, event |-> "Scaling remediation initiated",
                        agent |-> "Root Cause Analysis"]
            /\ tl[6] = [time |-> <<"0","0",":","0","8">>, event |-> "Recent deployment identified",
                        agent |-> "Root Cause Analysis"]
            /\ tl[7] = [time |-> <<"0","0",":","1","0">>, event |-> "Rollback initiated",
                        agent |-> "Escalation Coordinator"]
            /\ tl[8] = [time |-> <<"0","0",":","1","5">>, event |-> "Resolution in progress",
                        agent |-> "Incident Coordinator"]

\* process returned for a description with a resource and a deployment
\* keyword, the resource pair standing before the deployment pair
C24_Witness ==
    /\ ItReturned
    /\ ResourceKeyword
    /\ DeploymentKeyword
    /\ result.ret.timeline[4].event = "Resource exhaustion detected"
    /\ result.ret.timeline[6].event = "Recent deployment identified"
    /\ result.ret.timeline[8].event = "Resolution in progress"

-----------------------------------------------------------------------------
(* C25: what the calls leave alone *)

\* C25: after any sequence of process and process_stream calls, worker
\* selection included, the blueprint is the one the orchestrator was
\* constructed with (manager, workers, their order and their triggers), and
\* the record each caller passed holds what it held at the call.
C25_BlueprintAndInputUnchanged ==
    /\ blueprint = constructed
    /\ blueprint.manager = constructed.manager
    /\ blueprint.workers = constructed.workers
    /\ \A r \in RunIds : runs[r].kind # "none" => runs[r].input = runs[r].passed

\* a stream that selected its workers by the fallback has completed and a
\* process call has returned, both over a description with capitals
C25_Witness ==
    /\ runs[1].kind = "stream" /\ runs[1].state = "finished"
    /\ runs[2].kind = "process" /\ runs[2].state = "returned"
    /\ Len(constructed.workers) > FallbackLimit
    /\ \A r \in RunIds :
          /\ HasKey(runs[r].passed, "description")
          /\ Get(runs[r].passed, "description", PyNone).t = "str"
          /\ Lower(Get(runs[r].passed, "description", PyNone).s)
                # Get(runs[r].passed, "description", PyNone).s
          /\ runs[r].input = runs[r].passed

-----------------------------------------------------------------------------
(* C26: the identifier of a result *)

\* the number a string of decimal digits denotes, -1 when it is no such string
DecimalValue(str) ==
    LET F[i \in 0..Len(str)] ==
            IF i = 0 THEN 0 ELSE F[i - 1] * 10 + DigitValue(str[i])
    IN  IF str # <<>> /\ \A i \in 1..Len(str) :
                            \E j \in 1..Len(DigitChars) : DigitChars[j] = str[i]
        THEN F[Len(str)] ELSE -1

\* id is the prefix followed by the decimal digits of an integer in
\* 1000..9999
IsIdOf(prefix, id) ==
    /\ Len(id) > Len(prefix)
    /\ SubSeq(id, 1, Len(prefix)) = prefix
    /\ LET n == DecimalValue(SubSeq(id, Len(prefix) + 1, Len(id)))
       IN  /\ 1000 <= n /\ n <= 9999
           /\ SubSeq(id, Len(prefix) + 1, Len(id)) = StrOfInt(n)

\* the results process has returned to the callers, streams included
ProcessResults ==
    { runs[r].outcome.ret :
        r \in { q \in RunIds : runs[q].kind = "process" /\ runs[q].state = "returned" } }
    \cup { CompleteResult(r) : r \in { q \in RunIds : Completed(q) } }

\* C26 as stated: every result of process carries an identifier of the form
\* 'INC-' followed by an integer in 1000..9999.
C26_EveryResultCarriesIncId ==
    \A ret \in ProcessResults :
        /\ "incident_id" \in DOMAIN ret
        /\ IsIdOf(<<"I","N","C","-">>, ret.incident_id)

\* C26 amended: every result of process on a blueprint of domain
\* "it_operations" carries an incident_id of the form 'INC-' followed by an
\* integer in 1000..9999; on a blueprint of domain "customer_service" the
\* result carries a ticket_id 'TKT-' followed by such an integer and no
\* incident_id, and on any other domain it carries no identifier at all. The
\* identifiers are not unique: two calls can return the same one.
C26_IdentifierByDomain ==
    \A ret \in ProcessResults :
        CASE blueprint.domain = "it_operations" ->
               /\ "incident_id" \in DOMAIN ret
               /\ IsIdOf(<<"I","N","C","-">>, ret.incident_id)
          [] blueprint.domain = "customer_service" ->
               /\ "incident_id" \notin DOMAIN ret
               /\ "ticket_id" \in DOMAIN ret
               /\ IsIdOf(<<"T","K","T","-">>, ret.ticket_id)
          [] OTHER ->
               /\ "incident_id" \notin DOMAIN ret
               /\ "ticket_id" \notin DOMAIN ret

\* two calls of process on one orchestrator have returned the same identifier
C26_Witness ==
    /\ blueprint.domain = "it_operations"
    /\ runs[1].kind = "process" /\ runs[1].state = "returned"
    /\ runs[2].kind = "process" /\ runs[2].state = "returned"
    /\ IsIdOf(<<"I","N","C","-">>, runs[1].outcome.ret.incident_id)
    /\ runs[1].outcome.ret.incident_id = runs[2].outcome.ret.incident_id

-----------------------------------------------------------------------------
(* DemoApp: the sidebar and the page containers *)

\* the sidebar items and the page paths an AppConfig is made of: those of the
\* IT service desk and one more
SidebarItems ==
    << [label |-> "Dashboard", path |-> "/"],
       [label |-> "Incidents", path |-> "/incidents"],
       [label |-> "New Incident", path |-> "/new"],
       [label |-> "Reports", path |-> "/reports"] >>

PagePaths == <<"/", "/incidents", "/new", "/reports">>

\* DemoApp(config): config.sidebar and the paths of config.pages, which hold
\* the home page
DemoInit ==
    /\ OrchestratorIdle
    /\ NoForm
    /\ NoPageBuilt
    /\ template = NotCalled
    /\ registry = <<>>
    /\ lookup = NotCalled
    /\ validation = NotCalled
    /\ app = NoAppObject
    /\ containers = NoPageOpen
    /\ \E S \in SUBSET (1..Len(SidebarItems)), P \in SUBSET (2..Len(PagePaths)) :
          demo = [NoDemo EXCEPT !.sidebar = Pick(SidebarItems, S),
                                !.pages = Pick(PagePaths, P \cup {1})]

\* what the DemoApp leaves unchanged
DemoFrame ==
    UNCHANGED <<blueprint, constructed, directVars, runs, pageVars, formVars,
                template, registry, lookup, validation, app, containers>>

\* DemoApp.build: a button per sidebar item, none with a handler, and a
\* container per page, visible if its path is "/"
BuildDemo ==
    /\ ~demo.built
    /\ demo' = [demo EXCEPT !.built = TRUE,
                            !.visible = [i \in 1..Len(demo.pages) |-> demo.pages[i] = "/"]]
    /\ DemoFrame

\* what a click on the i-th sidebar button does to the visibility of the
\* page containers: the button has no click handler
VisibleAfterClick(d, i) == d.visible

\* the user clicks the i-th button of the sidebar
ClickSidebar ==
    /\ demo.built
    /\ \E i \in 1..Len(demo.sidebar) :
          demo' = [demo EXCEPT !.clicked = i, !.visible = VisibleAfterClick(demo, i)]
    /\ DemoFrame

DemoNext == BuildDemo \/ ClickSidebar

DemoSpec == DemoInit /\ [][DemoNext]_vars

-----------------------------------------------------------------------------
(* C27 *)

\* the paths of the page containers that are visible
VisiblePaths == { demo.pages[i] : i \in { j \in 1..Len(demo.pages) : demo.visible[j] } }

\* C27: in a built app exactly the page at "/" is visible before any click,
\* and once the user has clicked a sidebar item whose path has a page, the
\* container of that page is visible: every page listed in the sidebar can
\* be shown by clicking its item.
C27_ClickedSidebarPageIsVisible ==
    demo.built =>
        /\ demo.clicked = 0 => VisiblePaths = {"/"}
        /\ (demo.clicked # 0
              /\ \E j \in 1..Len(demo.pages) : demo.pages[j] = demo.sidebar[demo.clicked].path)
              => demo.sidebar[demo.clicked].path \in VisiblePaths

\* whatever the user clicks, the page at "/" is the only one ever visible
C27_OnlyHomeEverVisible ==
    demo.built => VisiblePaths = {"/"}

=============================================================================
